---- MODULE Spec2Model ----
(***************************************************************************)
(* A model of the rendering pipeline of tiny (declarative web components): *)
(*   - TemplateRenderer  (src/src/core/template-renderer.ts)               *)
(*   - ContextEvaluator  (src/src/core/context-evaluator.ts)               *)
(*   - AttributeProcessor (src/unnamed/part_003, attribute-processor.ts)   *)
(*   - ComponentRenderer (src/src/component-renderer.ts)                   *)
(*                                                                         *)
(* Text is a sequence of one-character strings.  A JavaScript value is a   *)
(* record [t, s, kv]: t is the type tag, s the text of a primitive (what   *)
(* String(v) returns) and kv the own enumerable properties in insertion    *)
(* order, as <<key, value>> pairs (an array holds its elements under the   *)
(* keys "0", "1", ...).                                                    *)
(***************************************************************************)
EXTENDS Naturals, Sequences, FiniteSets, TLC

(***************************************************************************)
(* JavaScript values                                                       *)
(***************************************************************************)
Undefined == [t |-> "undefined", s |-> <<>>, kv |-> <<>>]

Null == [t |-> "null", s |-> <<>>, kv |-> <<>>]

True == [t |-> "boolean", s |-> <<"t", "r", "u", "e">>, kv |-> <<>>]

False == [t |-> "boolean", s |-> <<"f", "a", "l", "s", "e">>, kv |-> <<>>]

Str(x) == [t |-> "string", s |-> x, kv |-> <<>>]

Num(d) == [t |-> "number", s |-> d, kv |-> <<>>]

Obj(pairs) == [t |-> "object", s |-> <<>>, kv |-> pairs]

\* A function value (a method of the behavior block), named by s.
Fn(name) == [t |-> "function", s |-> name, kv |-> <<>>]

DigitChar == <<"0", "1", "2", "3", "4", "5", "6", "7", "8", "9">>

RECURSIVE Digits(_)
Digits(n) ==
  IF n < 10 THEN <<DigitChar[n + 1]>>
  ELSE Digits(n \div 10) \o <<DigitChar[(n % 10) + 1]>>

Arr(items) ==
  [t |-> "array", s |-> <<>>,
   kv |-> [i \in 1..Len(items) |-> <<Digits(i - 1), items[i]>>]]

\* The elements of an array value, in index order.
Items(v) == [i \in 1..Len(v.kv) |-> v.kv[i][2]]

\* Array.isArray(v)
IsArray(v) == v.t = "array"

\* typeof v == "object" && v !== null
IsObjectLike(v) == v.t \in {"object", "array", "element"}

\* v == null  (undefined or null)
IsNullish(v) == v.t \in {"undefined", "null"}

\* ToBoolean(v): the conversion `!v`, `if (v)` and `v || w` apply.
Truthy(v) ==
  CASE v.t \in {"undefined", "null"} -> FALSE
    [] v.t = "boolean" -> v = True
    [] v.t = "string" -> v.s # <<>>
    [] v.t = "number" -> v.s # <<"0">>
    [] OTHER -> TRUE

HasKey(pairs, key) == \E i \in 1..Len(pairs) : pairs[i][1] = key

Lookup(pairs, key) ==
  pairs[CHOOSE i \in 1..Len(pairs) : pairs[i][1] = key][2]

\* obj[key] for an object-like value: an own property, the length of an
\* array, the text safeParse attached to an array, otherwise undefined.
GetProp(v, key) ==
  IF HasKey(v.kv, key) THEN Lookup(v.kv, key)
  ELSE IF v.t = "array" /\ key = <<"l", "e", "n", "g", "t", "h">>
       THEN Num(Digits(Len(v.kv)))
  ELSE IF v.t = "array" /\ key = <<"j", "s", "o", "n">>
          /\ "json" \in DOMAIN v
       THEN v.json
       ELSE Undefined

\* obj[key] = value on a list of properties: an existing key keeps its
\* place, a new key is appended.
SetPair(pairs, key, value) ==
  IF HasKey(pairs, key)
  THEN [i \in 1..Len(pairs) |->
          IF pairs[i][1] = key THEN <<key, value>> ELSE pairs[i]]
  ELSE Append(pairs, <<key, value>>)

\* { ...a, ...b } / Object.assign(a, b) on lists of properties.
RECURSIVE Assign(_, _)
Assign(a, b) ==
  IF b = <<>> THEN a
  ELSE Assign(SetPair(a, b[1][1], b[1][2]), Tail(b))

\* The own enumerable properties the spread `...v` copies.
SpreadPairs(v) ==
  CASE IsObjectLike(v) -> v.kv
    [] v.t = "string" ->
         [i \in 1..Len(v.s) |-> <<Digits(i - 1), Str(<<v.s[i]>>)>>]
    [] OTHER -> <<>>

(***************************************************************************)
(* Text helpers                                                            *)
(***************************************************************************)
\* The sequence a function over 1..n is, as a tuple.
AsSeq(f) == SubSeq(f, 1, Len(f))

\* Whether text p stands in s at position i.
StartsAt(s, i, p) ==
  /\ i >= 1
  /\ i + Len(p) - 1 <= Len(s)
  /\ SubSeq(s, i, i + Len(p) - 1) = p

RECURSIVE Concat(_)
Concat(ss) == IF ss = <<>> THEN <<>> ELSE Head(ss) \o Concat(Tail(ss))

RECURSIVE Join(_, _)
Join(ss, sep) ==
  IF ss = <<>> THEN <<>>
  ELSE IF Len(ss) = 1 THEN ss[1]
  ELSE ss[1] \o sep \o Join(Tail(ss), sep)

IsSpace(c) == c \in {" ", "\n", "\t"}

\* String.prototype.trim
RECURSIVE TrimLeft(_)
TrimLeft(s) ==
  IF s # <<>> /\ IsSpace(Head(s)) THEN TrimLeft(Tail(s)) ELSE s

RECURSIVE TrimRight(_)
TrimRight(s) ==
  IF s # <<>> /\ IsSpace(s[Len(s)]) THEN TrimRight(SubSeq(s, 1, Len(s) - 1))
  ELSE s

Trim(s) == TrimRight(TrimLeft(s))

\* s.split(c) for a one-character separator.
RECURSIVE SplitOn(_, _)
SplitOn(s, c) ==
  IF \E i \in 1..Len(s) : s[i] = c
  THEN LET i == CHOOSE k \in 1..Len(s) :
                  s[k] = c /\ \A m \in 1..(k - 1) : s[m] # c
       IN <<SubSeq(s, 1, i - 1)>> \o SplitOn(SubSeq(s, i + 1, Len(s)), c)
  ELSE <<s>>

\* s.replace(/c/g, r) for a one-character pattern.
RECURSIVE ReplaceChar(_, _, _)
ReplaceChar(s, c, r) ==
  IF s = <<>> THEN <<>>
  ELSE (IF Head(s) = c THEN r ELSE <<Head(s)>>) \o ReplaceChar(Tail(s), c, r)

(***************************************************************************)
(* TemplateRenderer  (src/src/core/template-renderer.ts)                   *)
(***************************************************************************)
\* String(v)
RECURSIVE StringOf(_)
StringOf(v) ==
  CASE v.t = "undefined" -> <<"u", "n", "d", "e", "f", "i", "n", "e", "d">>
    [] v.t = "null" -> <<"n", "u", "l", "l">>
    [] v.t = "array" ->
         Join([i \in 1..Len(v.kv) |->
                 IF IsNullish(v.kv[i][2]) THEN <<>> ELSE StringOf(v.kv[i][2])],
              <<",">>)
    [] v.t \in {"object", "element"} ->
         <<"[", "o", "b", "j", "e", "c", "t", " ",
           "O", "b", "j", "e", "c", "t", "]">>
    [] OTHER -> v.s

\* The quoted form JSON.stringify gives a string.
JSONQuote(s) ==
  <<"\"">> \o ReplaceChar(ReplaceChar(s, "\\", <<"\\", "\\">>),
                          "\"", <<"\\", "\"">>) \o <<"\"">>

\* JSON.stringify(v) of an object-like value and of what it holds.
RECURSIVE JSONStringify(_)
JSONStringify(v) ==
  CASE v.t = "string" -> JSONQuote(v.s)
    [] v.t \in {"undefined", "null", "function"} -> <<"n", "u", "l", "l">>
    [] v.t = "array" ->
         <<"[">> \o Join([i \in 1..Len(v.kv) |-> JSONStringify(v.kv[i][2])],
                         <<",">>) \o <<"]">>
    [] v.t \in {"object", "element"} ->
         LET kept == SelectSeq(v.kv,
                               LAMBDA p : p[2].t \notin {"undefined", "function"})
         IN <<"{">> \o
            Join([i \in 1..Len(kept) |->
                    JSONQuote(kept[i][1]) \o <<":">> \o
                    JSONStringify(kept[i][2])], <<",">>) \o <<"}">>
    [] OTHER -> v.s

\* TemplateRenderer.stringifyValue
stringifyValue(value) ==
  IF IsNullish(value) THEN <<>>
  ELSE IF IsObjectLike(value) THEN JSONStringify(value)
  ELSE StringOf(value)

Dot == <<".">>

\* A variant of the reduce of resolveValue that keeps a value that is not
\* an object when segments are left.
RECURSIVE ResolvePathKeeping(_, _)
ResolvePathKeeping(acc, parts) ==
  IF parts = <<>> THEN acc
  ELSE IF IsNullish(acc) THEN Undefined
  ELSE IF IsObjectLike(acc)
       THEN ResolvePathKeeping(GetProp(acc, Head(parts)), Tail(parts))
       ELSE acc

\* TemplateRenderer.resolveValue: `.` is the current item, anything else a
\* dotted path followed through object-like values only.
RECURSIVE ResolvePath(_, _)
ResolvePath(acc, parts) ==
  IF parts = <<>> THEN acc
  ELSE IF IsNullish(acc) THEN Undefined
  ELSE IF IsObjectLike(acc)
       THEN ResolvePath(GetProp(acc, Head(parts)), Tail(parts))
       ELSE Undefined

resolveValue(context, key) ==
  IF key = Dot THEN GetProp(context, Dot)
  ELSE ResolvePath(context, SplitOn(key, "."))

\* A variant of escapeHTML that replaces the ampersand last: the entities
\* written for < > " ' are escaped a second time.
escapeHTMLAmpLast(value) ==
  IF IsNullish(value) THEN <<>>
  ELSE ReplaceChar(
         ReplaceChar(
           ReplaceChar(
             ReplaceChar(
               ReplaceChar(StringOf(value), "<", <<"&", "l", "t", ";">>),
               ">", <<"&", "g", "t", ";">>),
             "\"", <<"&", "q", "u", "o", "t", ";">>),
           "'", <<"&", "#", "0", "3", "9", ";">>),
         "&", <<"&", "a", "m", "p", ";">>)

\* TemplateRenderer.escapeHTML: five replacements, the ampersand first.
escapeHTML(value) ==
  IF IsNullish(value) THEN <<>>
  ELSE ReplaceChar(
         ReplaceChar(
           ReplaceChar(
             ReplaceChar(
               ReplaceChar(StringOf(value), "&", <<"&", "a", "m", "p", ";">>),
               "<", <<"&", "l", "t", ";">>),
             ">", <<"&", "g", "t", ";">>),
           "\"", <<"&", "q", "u", "o", "t", ";">>),
         "'", <<"&", "#", "0", "3", "9", ";">>)

NoLineBreak(s) == \A i \in 1..Len(s) : s[i] # "\n"

Braces2 == <<"{", "{">>

Braces3 == <<"{", "{", "{">>

Close2 == <<"}", "}">>

Close3 == <<"}", "}", "}">>

OpenInverted == <<"{", "{", "^">>

OpenSection == <<"{", "{", "#">>

CloseTag(key) == <<"{", "{", "/">> \o key \o Close2

NoMatch == [found |-> FALSE, at |-> 0, key |-> <<>>, content |-> <<>>,
            next |-> 0, raw |-> FALSE]

\* The match of /\{\{X(.*?)\}\}([\s\S]*?)\{\{\/\1\}\}/ (X is ^ or #) that
\* starts at position i of s: both groups are lazy, so the key is the
\* shortest one for which a closing tag of that key follows, and the content
\* the shortest up to such a closing tag.
SectionMatchAt(s, i, open) ==
  LET keyEnds ==
        {j \in (i + 3)..Len(s) :
           /\ StartsAt(s, j, Close2)
           /\ NoLineBreak(SubSeq(s, i + 3, j - 1))
           /\ \E k \in (j + 2)..Len(s) :
                StartsAt(s, k, CloseTag(SubSeq(s, i + 3, j - 1)))}
  IN IF StartsAt(s, i, open) /\ keyEnds # {}
     THEN LET j == CHOOSE x \in keyEnds : \A y \in keyEnds : x <= y
              key == SubSeq(s, i + 3, j - 1)
              ends == {k \in (j + 2)..Len(s) : StartsAt(s, k, CloseTag(key))}
              k == CHOOSE x \in ends : \A y \in ends : x <= y
          IN [found |-> TRUE, at |-> i, key |-> key,
              content |-> SubSeq(s, j + 2, k - 1),
              next |-> k + Len(CloseTag(key)), raw |-> FALSE]
     ELSE NoMatch

\* The match of /\{\{\{(.*?)\}\}\}|\{\{(.*?)\}\}/ that starts at position i:
\* the raw alternative is tried first. `raw` is the truth of the first group
\* (an empty first group is falsy), `key` the group that matched.
InterpolationMatchAt(s, i) ==
  LET ends3 == {j \in (i + 3)..Len(s) :
                  StartsAt(s, j, Close3) /\ NoLineBreak(SubSeq(s, i + 3, j - 1))}
      ends2 == {j \in (i + 2)..Len(s) :
                  StartsAt(s, j, Close2) /\ NoLineBreak(SubSeq(s, i + 2, j - 1))}
  IN IF StartsAt(s, i, Braces3) /\ ends3 # {}
     THEN LET j == CHOOSE x \in ends3 : \A y \in ends3 : x <= y
          IN [found |-> TRUE, at |-> i, key |-> SubSeq(s, i + 3, j - 1),
              content |-> <<>>, next |-> j + 3,
              raw |-> SubSeq(s, i + 3, j - 1) # <<>>]
     ELSE IF StartsAt(s, i, Braces2) /\ ends2 # {}
     THEN LET j == CHOOSE x \in ends2 : \A y \in ends2 : x <= y
          IN [found |-> TRUE, at |-> i, key |-> SubSeq(s, i + 2, j - 1),
              content |-> <<>>, next |-> j + 2, raw |-> FALSE]
     ELSE NoMatch

\* The leftmost match in s (String.prototype.replace scans from the left).
FirstSectionMatch(s, open) ==
  LET starts == {i \in 1..Len(s) : SectionMatchAt(s, i, open).found}
  IN IF starts = {} THEN NoMatch
     ELSE SectionMatchAt(s, CHOOSE x \in starts : \A y \in starts : x <= y, open)

FirstInterpolationMatch(s) ==
  LET starts == {i \in 1..Len(s) : InterpolationMatchAt(s, i).found}
  IN IF starts = {} THEN NoMatch
     ELSE InterpolationMatchAt(s, CHOOSE x \in starts : \A y \in starts : x <= y)

\* The replacement renderInterpolation's callback returns for one match.
InterpolationValue(m, context) ==
  LET value == resolveValue(context, Trim(m.key))
  IN IF m.raw THEN stringifyValue(value)
     ELSE escapeHTML(IF IsNullish(value) THEN Str(<<>>) ELSE value)

\* TemplateRenderer.renderInterpolation: every match is replaced, left to
\* right; the text a replacement writes is not scanned again by this pass.
RECURSIVE renderInterpolation(_, _)
renderInterpolation(template, context) ==
  LET Replaced(m) ==
        IF ~m.found THEN template
        ELSE SubSeq(template, 1, m.at - 1)
             \o InterpolationValue(m, context)
             \o renderInterpolation(SubSeq(template, m.next, Len(template)),
                                    context)
  IN Replaced(FirstInterpolationMatch(template))

\* { ...context, ...item, ".": item }
ItemOverlay(context, item) ==
  Obj(Assign(Assign(context.kv, SpreadPairs(item)), <<<<Dot, item>>>>))

\* { ...context, ".": value }
ValueOverlay(context, value) == Obj(Assign(context.kv, <<<<Dot, value>>>>))

\* A variant of the inverted-section test without the empty-sequence case.
InvertedRendersFalsyOnly(value) == ~Truthy(value)

\* The test of renderInvertedSections: the value is falsy or an empty array.
InvertedRenders(value) ==
  ~Truthy(value) \/ (IsArray(value) /\ Len(value.kv) = 0)

RECURSIVE render(_, _)
RECURSIVE renderInvertedSections(_, _)
RECURSIVE renderSections(_, _)

\* TemplateRenderer.renderInvertedSections
renderInvertedSections(template, context) ==
  LET Replaced(m) ==
        IF ~m.found THEN template
        ELSE SubSeq(template, 1, m.at - 1)
             \o (IF InvertedRenders(resolveValue(context, Trim(m.key)))
                 THEN render(m.content, context)
                 ELSE <<>>)
             \o renderInvertedSections(SubSeq(template, m.next, Len(template)),
                                       context)
  IN Replaced(FirstSectionMatch(template, OpenInverted))

\* TemplateRenderer.renderSections
renderSections(template, context) ==
  LET Section(m, value) ==
        IF IsArray(value)
        THEN Concat([i \in 1..Len(value.kv) |->
                       render(m.content, ItemOverlay(context, value.kv[i][2]))])
        ELSE IF Truthy(value)
        THEN render(m.content, ValueOverlay(context, value))
        ELSE <<>>
      Replaced(m) ==
        IF ~m.found THEN template
        ELSE SubSeq(template, 1, m.at - 1)
             \o Section(m, resolveValue(context, Trim(m.key)))
             \o renderSections(SubSeq(template, m.next, Len(template)), context)
  IN Replaced(FirstSectionMatch(template, OpenSection))

\* TemplateRenderer.render: inverted sections, then sections, then
\* interpolation, each pass over the whole output of the pass before it.
render(template, context) ==
  renderInterpolation(
    renderSections(renderInvertedSections(template, context), context),
    context)

(***************************************************************************)
(* Dataset parsing  (src/src/dataset-parser.ts)                            *)
(***************************************************************************)
JsonKey == <<"j", "s", "o", "n">>

ParseFailed == [ok |-> FALSE, v |-> Undefined, n |-> 0]

Parsed(v, n) == [ok |-> TRUE, v |-> v, n |-> n]

RECURSIVE SkipSpace(_, _)
SkipSpace(s, i) ==
  IF i <= Len(s) /\ IsSpace(s[i]) THEN SkipSpace(s, i + 1) ELSE i

\* The first position from i on that holds no character of set cs.
RECURSIVE SkipWhile(_, _, _)
SkipWhile(s, i, cs) ==
  IF i <= Len(s) /\ s[i] \in cs THEN SkipWhile(s, i + 1, cs) ELSE i

DigitSet == {DigitChar[k] : k \in 1..10}

\* A JSON string literal at i (the model's texts hold no escape sequences
\* and no control characters).
ParseString(s, i) ==
  IF i > Len(s) \/ s[i] # "\"" THEN ParseFailed
  ELSE LET e == SkipWhile(s, i + 1, {s[k] : k \in 1..Len(s)} \ {"\"", "\\"})
       IN IF e <= Len(s) /\ s[e] = "\""
          THEN Parsed(Str(SubSeq(s, i + 1, e - 1)), e + 1)
          ELSE ParseFailed

\* A JSON number at i: an integer without sign, fraction or exponent.
ParseNumber(s, i) ==
  LET e == SkipWhile(s, i, DigitSet)
  IN IF e = i \/ (s[i] = "0" /\ e > i + 1) THEN ParseFailed
     ELSE Parsed(Num(SubSeq(s, i, e - 1)), e)

RECURSIVE ParseValue(_, _)
RECURSIVE ParseMembers(_, _, _)
RECURSIVE ParseElements(_, _, _)

\* The members of an object from i on, after `{` or `,`; acc holds the
\* members read so far (a repeated key keeps its place and takes the last
\* value).
ParseMembers(s, i, acc) ==
  LET key == ParseString(s, SkipSpace(s, i))
      colon == IF key.ok THEN SkipSpace(s, key.n) ELSE 0
      val == IF key.ok /\ colon <= Len(s) /\ s[colon] = ":"
             THEN ParseValue(s, colon + 1) ELSE ParseFailed
      after == IF val.ok THEN SkipSpace(s, val.n) ELSE 0
      members == IF val.ok THEN SetPair(acc, key.v.s, val.v) ELSE acc
  IN IF ~val.ok \/ after > Len(s) THEN ParseFailed
     ELSE IF s[after] = "}" THEN Parsed(Obj(members), after + 1)
     ELSE IF s[after] = "," THEN ParseMembers(s, after + 1, members)
     ELSE ParseFailed

\* The elements of an array from i on, after `[` or `,`.
ParseElements(s, i, acc) ==
  LET val == ParseValue(s, i)
      after == IF val.ok THEN SkipSpace(s, val.n) ELSE 0
      items == IF val.ok THEN Append(acc, val.v) ELSE acc
  IN IF ~val.ok \/ after > Len(s) THEN ParseFailed
     ELSE IF s[after] = "]" THEN Parsed(Arr(items), after + 1)
     ELSE IF s[after] = "," THEN ParseElements(s, after + 1, items)
     ELSE ParseFailed

\* A JSON value at i, after optional white space.
ParseValue(s, i) ==
  LET b == SkipSpace(s, i)
  IN IF b > Len(s) THEN ParseFailed
     ELSE CASE s[b] = "{" ->
                 IF SkipSpace(s, b + 1) <= Len(s) /\ s[SkipSpace(s, b + 1)] = "}"
                 THEN Parsed(Obj(<<>>), SkipSpace(s, b + 1) + 1)
                 ELSE ParseMembers(s, b + 1, <<>>)
            [] s[b] = "[" ->
                 IF SkipSpace(s, b + 1) <= Len(s) /\ s[SkipSpace(s, b + 1)] = "]"
                 THEN Parsed(Arr(<<>>), SkipSpace(s, b + 1) + 1)
                 ELSE ParseElements(s, b + 1, <<>>)
            [] s[b] = "\"" -> ParseString(s, b)
            [] s[b] \in DigitSet -> ParseNumber(s, b)
            [] StartsAt(s, b, True.s) -> Parsed(True, b + 4)
            [] StartsAt(s, b, False.s) -> Parsed(False, b + 5)
            [] StartsAt(s, b, <<"n", "u", "l", "l">>) -> Parsed(Null, b + 4)
            [] OTHER -> ParseFailed

\* JSON.parse(text): a value followed by nothing but white space, or a
\* SyntaxError (ok = FALSE).
JSONParse(text) ==
  LET r == ParseValue(text, 1)
  IN IF r.ok /\ SkipSpace(text, r.n) = Len(text) + 1 THEN r ELSE ParseFailed

\* safeParse(data).  Text that starts with {, [ or " is parsed as JSON and
\* the text attached to the result under `json`; attaching it to a parsed
\* string, a primitive, throws in strict code like a failing parse does,
\* and the catch returns the text as it is.
safeParse(data) ==
  IF data # <<>> /\ Head(data) \in {"{", "[", "\""}
  THEN LET val == JSONParse(data)
       IN IF ~val.ok THEN Str(data)
          ELSE IF val.v.t = "object"
          THEN [val.v EXCEPT !.kv = SetPair(@, JsonKey, Str(data))]
          ELSE IF val.v.t = "array"
          THEN [t |-> "array", s |-> <<>>, kv |-> val.v.kv, json |-> Str(data)]
          ELSE Str(data)
  ELSE Str(data)

\* parseDataset(dataset): every key with the parsed form of its text; an
\* empty text stays as it is.
parseDataset(dataset) ==
  [i \in 1..Len(dataset) |->
     <<dataset[i][1],
       IF dataset[i][2] # <<>> THEN safeParse(dataset[i][2])
       ELSE Str(dataset[i][2])>>]

(***************************************************************************)
(* ContextEvaluator  (src/src/core/context-evaluator.ts)                   *)
(*                                                                         *)
(* The text of an expression is modelled by its syntax tree.  Expressions: *)
(*   Path(p)      a.b.c, the first name looked up in the `with` scope      *)
(*   ThisPath(p)  this.a.b                                                 *)
(*   Not(e)       !e                                                       *)
(*   Lit(v)       a literal                                                *)
(*   BadSyntax    text that is no expression (new Function throws)         *)
(*   Throwing     an expression that throws when it is evaluated           *)
(* Statements of event handlers and method bodies:                         *)
(*   SetThis(f, e)  this.f = e        SetBare(f, e)  f = e                 *)
(*   Call(m)        this.m()          Seq(a, b)      a; b                  *)
(*   ThrowIf(e)     if (e) throw ...                                       *)
(*   Nop, Throwing, BadSyntax                                              *)
(***************************************************************************)
Path(p) == [op |-> "path", p |-> p]

ThisPath(p) == [op |-> "this", p |-> p]

Not(e) == [op |-> "not", e |-> e]

Lit(v) == [op |-> "lit", v |-> v]

BadSyntax == [op |-> "syntax"]

Throwing == [op |-> "throw"]

Nop == [op |-> "nop"]

SetThis(f, e) == [op |-> "setThis", f |-> f, e |-> e]

SetBare(f, e) == [op |-> "setBare", f |-> f, e |-> e]

Call(m) == [op |-> "call", m |-> m]

Seq2(a, b) == [op |-> "seq", a |-> a, b |-> b]

ThrowIf(e) == [op |-> "throwIf", e |-> e]

\* this.m(e), m a method whose parameter is called param.
CallWith(m, param, e) == [op |-> "callWith", m |-> m, param |-> param, e |-> e]

\* this.dispatchEvent(new CustomEvent(ev, { detail, bubbles }))
Dispatch(ev, detail, bubbles) ==
  [op |-> "dispatch", ev |-> ev, detail |-> detail, bubbles |-> bubbles]

ElKey == <<"$", "e", "l">>

DollarEventKey == <<"$", "e", "v", "e", "n", "t">>

EventKey == <<"e", "v", "e", "n", "t">>

RefsKey == <<"$", "r", "e", "f", "s">>

DetailKey == <<"d", "e", "t", "a", "i", "l">>

TypeKey == <<"t", "y", "p", "e">>

\* new CustomEvent(ev, { detail })
CustomEvent(ev, detail) ==
  Obj(<<<<TypeKey, Str(ev)>>, <<DetailKey, detail>>>>)

AtKey == <<"@">>

IdxKey == <<"_", "i", "d", "x">>

\* The outcome of running a piece of JavaScript: a value, or an exception.
Returned(v) == [threw |-> FALSE, v |-> v]

Thrown == [threw |-> TRUE, v |-> Undefined]

\* base.a.b...: reading a property of undefined or null is a TypeError; a
\* primitive has none of the properties the model's expressions name.
RECURSIVE Member(_, _)
Member(base, names) ==
  IF names = <<>> THEN Returned(base)
  ELSE IF IsNullish(base) THEN Thrown
  ELSE Member(IF IsObjectLike(base) THEN GetProp(base, Head(names))
              ELSE Undefined,
              Tail(names))

\* The value of an expression inside `with (scope) { return e; }` called
\* with the given `this`: a name that the scope does not hold is a
\* ReferenceError.
RECURSIVE EvalExpr(_, _, _)
EvalExpr(e, scope, thisValue) ==
  CASE e.op = "path" ->
         IF HasKey(scope, Head(e.p))
         THEN Member(Lookup(scope, Head(e.p)), Tail(e.p))
         ELSE Thrown
    [] e.op = "this" -> Member(thisValue, e.p)
    [] e.op = "not" ->
         LET r == EvalExpr(e.e, scope, thisValue)
         IN IF r.threw THEN Thrown
            ELSE Returned(IF Truthy(r.v) THEN False ELSE True)
    [] e.op = "lit" -> Returned(e.v)
    [] OTHER -> Thrown

\* A variant of evaluate without the try/catch: the exception leaves it.
evaluateUncaught(expression, context, element) ==
  EvalExpr(expression,
           IF element = Null THEN context.kv
           ELSE Assign(context.kv, <<<<ElKey, element>>>>),
           element)

\* ContextEvaluator.evaluate: the function is built and called inside a
\* try block; on any exception the result is null.
evaluate(expression, context, element) ==
  LET r == EvalExpr(expression,
                    IF element = Null THEN context.kv
                    ELSE Assign(context.kv, <<<<ElKey, element>>>>),
                    element)
  IN IF r.threw THEN Returned(Null) ELSE r

\* A variant of parseContextValue with `||` in place of `??`: every falsy
\* value gives way to the default.
parseContextValueOr(key, context, defaultValue) ==
  IF Truthy(evaluate(key, context, Null).v)
  THEN evaluate(key, context, Null).v
  ELSE defaultValue

\* ContextEvaluator.parseContextValue: evaluate(key, context) ?? defaultValue.
parseContextValue(key, context, defaultValue) ==
  IF IsNullish(evaluate(key, context, Null).v)
  THEN defaultValue
  ELSE evaluate(key, context, Null).v

\* The effect of a statement run with `this` bound to an object whose
\* properties are `this`, inside `with (full)`: `full` is a copy, so an
\* assignment through a bare name changes the copy only (a name the copy
\* does not hold becomes a global).  methods maps a method name to its body.
\* out lists the events the statement dispatched on `this`.
RECURSIVE ExecStmt(_, _, _, _)
ExecStmt(st, full, this, methods) ==
  LET failed == [ok |-> FALSE, this |-> this, full |-> full, out |-> <<>>]
      same == [ok |-> TRUE, this |-> this, full |-> full, out |-> <<>>]
  IN CASE st.op = "nop" -> same
       [] st.op = "setThis" ->
            LET r == EvalExpr(st.e, full, Obj(this))
            IN IF r.threw THEN failed
               ELSE [same EXCEPT !.this = SetPair(this, st.f, r.v)]
       [] st.op = "setBare" ->
            LET r == EvalExpr(st.e, full, Obj(this))
            IN IF r.threw THEN failed
               ELSE [same EXCEPT !.full = IF HasKey(full, st.f)
                                          THEN SetPair(full, st.f, r.v)
                                          ELSE full]
       [] st.op = "call" ->
            IF GetProp(Obj(this), st.m).t = "function"
               /\ st.m \in DOMAIN methods
            THEN [ExecStmt(methods[st.m], <<>>, this, methods)
                    EXCEPT !.full = full]
            ELSE failed
       [] st.op = "callWith" ->
            LET r == EvalExpr(st.e, full, Obj(this))
            IN IF r.threw
                  \/ GetProp(Obj(this), st.m).t # "function"
                  \/ st.m \notin DOMAIN methods
               THEN failed
               ELSE [ExecStmt(methods[st.m], <<<<st.param, r.v>>>>, this,
                              methods)
                       EXCEPT !.full = full]
       [] st.op = "dispatch" ->
            [same EXCEPT !.out = <<[ev |-> st.ev, bubbles |-> st.bubbles,
                                    event |-> CustomEvent(st.ev, st.detail)]>>]
       [] st.op = "throwIf" ->
            LET r == EvalExpr(st.e, full, Obj(this))
            IN IF r.threw \/ Truthy(r.v) THEN failed ELSE same
       [] st.op = "seq" ->
            LET a == ExecStmt(st.a, full, this, methods)
                Then(b) == [b EXCEPT !.out = a.out \o @]
            IN IF a.ok THEN Then(ExecStmt(st.b, a.full, a.this, methods))
               ELSE a
       [] OTHER -> failed

(***************************************************************************)
(* Template definitions and the render boundary                            *)
(*                                                                         *)
(* The markup of a template is a list of element descriptions in document  *)
(* order: tag, parent (0: none), tpl (the <template> element whose inert   *)
(* content holds the element, 0: none), attrs (name, value) in source      *)
(* order and the element's own text, which may hold mustache tags.  The    *)
(* value of a directive attribute is the syntax tree of its expression.    *)
(***************************************************************************)
XShow == <<"x", "-", "s", "h", "o", "w">>

XIf == <<"x", "-", "i", "f">>

XFor == <<"x", "-", "f", "o", "r">>

XHtml == <<"x", "-", "h", "t", "m", "l">>

XText == <<"x", "-", "t", "e", "x", "t">>

XModel == <<"x", "-", "m", "o", "d", "e", "l">>

XRef == <<"x", "-", "r", "e", "f">>

AtClick == <<"@", "c", "l", "i", "c", "k">>

ColonTitle == <<":", "t", "i", "t", "l", "e">>

Click == <<"c", "l", "i", "c", "k">>

Change == <<"c", "h", "a", "n", "g", "e">>

\* The iteration expression `v of c` / `v in c` of an x-for.
ForOf(v, c) == [op |-> "for", v |-> v, c |-> c]

El(tag, parent, tpl, attrs, text) ==
  [tag |-> tag, parent |-> parent, tpl |-> tpl, attrs |-> attrs, text |-> text]

\* Whether description a of markup html is description d or inside it (an
\* inserted clone is inside the parent of its template).
RECURSIVE IsWithin(_, _, _)
IsWithin(html, a, d) ==
  IF a = 0 THEN FALSE
  ELSE IF a = d THEN TRUE
  ELSE IsWithin(html,
                IF html[a].parent = 0 /\ html[a].tpl # 0
                THEN html[html[a].tpl].parent ELSE html[a].parent,
                d)

\* The reference to an element of the boundary: the pass that created it,
\* its description and, for a clone, the iterations that produced it.
ElementRef(gen, d, it) ==
  [t |-> "element",
   s |-> Digits(gen) \o <<":">> \o Digits(d)
         \o Concat([i \in 1..Len(it) |-> <<".">> \o Digits(it[i])]),
   kv |-> <<>>]

\* A freshly parsed element of pass gen.  where: "boundary" (attached inside
\* the render boundary), "fragment" (in a clone not inserted yet) or
\* "removed"; detached: what took the element from its parent ("no": it has
\* one, "x-if", "content": the parent's content was assigned).  applied
\* lists the directives processed on it, against holds the properties of
\* the overlay a clone is processed against.
NewElement(gen, d, it, where, text) ==
  [gen |-> gen, d |-> d, it |-> it, where |-> where, hidden |-> FALSE,
   text |-> text, value |-> <<>>, set |-> <<>>, listeners |-> <<>>,
   detached |-> "no", applied |-> <<>>, against |-> <<>>]

\* The position of element (d, it) in a list of elements (0: none).
PosOf(dom, d, it) ==
  IF \E i \in 1..Len(dom) : dom[i].d = d /\ dom[i].it = it
  THEN CHOOSE i \in 1..Len(dom) : dom[i].d = d /\ dom[i].it = it
  ELSE 0

IsPrefix(p, q) == Len(p) <= Len(q) /\ SubSeq(q, 1, Len(p)) = p

(***************************************************************************)
(* AttributeProcessor  (src/unnamed/part_003: core/attribute-processor.ts) *)
(*                                                                         *)
(* The operations act on the component instance m.  m.exc names the kind   *)
(* of the exception in flight ("none": no exception); an operation entered *)
(* with an exception in flight does nothing, which is how a throw leaves   *)
(* the callers up to the next try/catch.  cx is the context a directive is *)
(* processed against: the instance itself (live) or the overlay object of  *)
(* an x-for iteration (o, its properties).                                 *)
(***************************************************************************)
Template == <<"t", "e", "m", "p", "l", "a", "t", "e">>

Live == [live |-> TRUE, o |-> <<>>, v |-> <<>>, alias |-> <<>>]

\* A variant of the overlay that is the instance itself instead of a copy.
OverlayIsInstance(o, v, alias) ==
  [live |-> TRUE, o |-> o, v |-> v, alias |-> alias]

\* The overlay o of an iteration with loop variable v; alias is the path of
\* the item in the instance when the item is an object the instance holds
\* (<<>>: it is not).
Overlay(o, v, alias) == [live |-> FALSE, o |-> o, v |-> v, alias |-> alias]

\* Runs Op on m unless an exception is in flight.
Step(m, Op(_)) == IF m.exc # "none" THEN m ELSE Op(m)

\* What a listener or callback leaves behind when an exception leaves it:
\* the exception is reported (uncaught).
Report(m) ==
  IF m.exc = "none" THEN m
  ELSE [m EXCEPT !.uncaught = Append(@, m.exc), !.exc = "none"]

CxPairs(m, cx) == IF cx.live THEN m.ctx ELSE cx.o

Raise(m, kind) == [m EXCEPT !.exc = kind]

Log(m, label) == [m EXCEPT !.trace = Append(@, label)]

Here(m, d, it) == PosOf(m.dom, d, it)

Ref(m, d, it) == ElementRef(m.gen, d, it)

Applied(m, d, it, name) ==
  [m EXCEPT !.dom[Here(m, d, it)].applied = Append(@, name)]

\* element.remove(): the element leaves its parent, its subtree leaves the
\* boundary with it.
RemoveElement(m, d, it) ==
  [m EXCEPT !.dom =
     AsSeq([i \in 1..Len(m.dom) |->
        IF IsWithin(m.def.html, m.dom[i].d, d) /\ IsPrefix(it, m.dom[i].it)
        THEN [m.dom[i] EXCEPT
                !.where = "removed",
                !.detached = IF m.dom[i].d = d /\ m.dom[i].it = it
                             THEN "x-if" ELSE @]
        ELSE m.dom[i]])]

\* Assigning innerHTML or textContent: the text is replaced and the child
\* elements leave the document.
SetContent(m, d, it, text) ==
  [m EXCEPT !.dom =
     AsSeq([i \in 1..Len(m.dom) |->
        IF m.dom[i].d = d /\ m.dom[i].it = it
        THEN [m.dom[i] EXCEPT !.text = text]
        ELSE IF IsWithin(m.def.html, m.dom[i].d, d) /\ IsPrefix(it, m.dom[i].it)
        THEN [m.dom[i] EXCEPT !.where = "removed", !.detached = "content"]
        ELSE m.dom[i]])]

\* A variant of processShowAttribute that sets the hidden flag to the
\* truth of the expression.
processShowAttributeInverted(m, d, it, attr, cx) ==
  LET show == evaluate(attr[2], Obj(CxPairs(m, cx)), Ref(m, d, it))
  IN IF show.threw THEN Raise(m, "expression")
     ELSE [m EXCEPT !.dom[Here(m, d, it)].hidden = Truthy(show.v)]

\* AttributeProcessor.processShowAttribute
processShowAttribute(m, d, it, attr, cx) ==
  LET show == evaluate(attr[2], Obj(CxPairs(m, cx)), Ref(m, d, it))
  IN IF show.threw THEN Raise(m, "expression")
     ELSE [m EXCEPT !.dom[Here(m, d, it)].hidden = ~Truthy(show.v)]

\* AttributeProcessor.processIfAttribute
processIfAttribute(m, d, it, attr, cx) ==
  LET shouldRender == evaluate(attr[2], Obj(CxPairs(m, cx)), Ref(m, d, it))
  IN IF shouldRender.threw THEN Raise(m, "expression")
     ELSE IF ~Truthy(shouldRender.v) THEN RemoveElement(m, d, it)
     ELSE m

\* AttributeProcessor.processHtmlAttribute
processHtmlAttribute(m, d, it, attr, cx) ==
  LET htmlContent == evaluate(attr[2], Obj(CxPairs(m, cx)), Ref(m, d, it))
  IN IF htmlContent.threw THEN Raise(m, "expression")
     ELSE SetContent(m, d, it,
                     IF Truthy(htmlContent.v) THEN StringOf(htmlContent.v)
                     ELSE <<>>)

\* AttributeProcessor.processTextAttribute
processTextAttribute(m, d, it, attr, cx) ==
  LET textContent == evaluate(attr[2], Obj(CxPairs(m, cx)), Ref(m, d, it))
  IN IF textContent.threw THEN Raise(m, "expression")
     ELSE SetContent(m, d, it,
                     IF Truthy(textContent.v) THEN StringOf(textContent.v)
                     ELSE <<>>)

DataValue == <<"d", "a", "t", "a", "-", "v", "a", "l", "u", "e">>

\* AttributeProcessor.processModelAttribute: the value is set and a change
\* listener registered, which closes over the context and the path.
processModelAttribute(m, d, it, attr, cx) ==
  LET initialValue == evaluate(attr[2], Obj(CxPairs(m, cx)), Ref(m, d, it))
      text == IF Truthy(initialValue.v) THEN StringOf(initialValue.v) ELSE <<>>
  IN IF initialValue.threw THEN Raise(m, "expression")
     ELSE [m EXCEPT
             !.dom[Here(m, d, it)].value = text,
             !.dom[Here(m, d, it)].set = SetPair(@, DataValue, text),
             !.dom[Here(m, d, it)].listeners =
                Append(@, [ev |-> Change, kind |-> "model", code |-> attr[2],
                           cx |-> cx])]

\* A variant of processRefAttribute that starts a new references table for
\* each element.
processRefAttributeFresh(m, d, it, attr, cx) ==
  [m EXCEPT !.ctx = SetPair(m.ctx, RefsKey,
                            Obj(<<<<attr[2], Ref(m, d, it)>>>>))]

\* AttributeProcessor.processRefAttribute.  The $refs object of an overlay
\* is the instance's own one (the spread copies the reference), so the
\* entry lands in the instance's table in both cases.
processRefAttribute(m, d, it, attr, cx) ==
  LET refs == GetProp(Obj(m.ctx), RefsKey)
      table == IF Truthy(refs) THEN refs ELSE Obj(<<>>)
  IN [m EXCEPT !.ctx =
        SetPair(m.ctx, RefsKey,
                [table EXCEPT !.kv = SetPair(table.kv, attr[2], Ref(m, d, it))])]

\* AttributeProcessor.processEventAttribute: the listener runs the handler
\* createEventHandler built, then the render callback.
processEventAttribute(m, d, it, attr, cx) ==
  [m EXCEPT !.dom[Here(m, d, it)].listeners =
     Append(@, [ev |-> Tail(attr[1]), kind |-> "event", code |-> attr[2],
                cx |-> cx])]

\* A variant of processDynamicAttribute that empties the attribute when the
\* value is falsy.
processDynamicAttributeClearing(m, d, it, attr, cx) ==
  LET value == evaluate(attr[2], Obj(CxPairs(m, cx)), Ref(m, d, it))
  IN IF value.threw THEN Raise(m, "expression")
     ELSE [m EXCEPT !.dom[Here(m, d, it)].set =
             SetPair(@, Tail(attr[1]),
                     IF Truthy(value.v) THEN StringOf(value.v) ELSE <<>>)]

\* AttributeProcessor.processDynamicAttribute
processDynamicAttribute(m, d, it, attr, cx) ==
  LET value == evaluate(attr[2], Obj(CxPairs(m, cx)), Ref(m, d, it))
  IN IF value.threw THEN Raise(m, "expression")
     ELSE IF Truthy(value.v)
     THEN [m EXCEPT !.dom[Here(m, d, it)].set =
             SetPair(@, Tail(attr[1]), StringOf(value.v))]
     ELSE m

\* AttributeProcessor.parseListIterations: the overlay objects of an x-for,
\* one per item; any failure (text that does not parse, a collection that
\* throws or has no map method) gives none.  Inside `with (context)` the
\* name `context` is the instance (the instance holds itself under that
\* name and the spread copies it into every overlay), so every overlay is
\* the instance's properties plus the loop variable and _idx.
parseListIterations(m, expression, cx) ==
  IF expression.op # "for" THEN <<>>
  ELSE LET c == EvalExpr(expression.c, CxPairs(m, cx), Obj(CxPairs(m, cx)))
       IN IF c.threw \/ ~IsArray(c.v) THEN <<>>
          ELSE [i \in 1..Len(c.v.kv) |->
                  Assign(m.ctx, <<<<expression.v, c.v.kv[i][2]>>,
                                  <<IdxKey, Num(Digits(i - 1))>>>>)]

\* element.content.cloneNode(true): the elements of the template's inert
\* content, in document order, for iteration path it.
CloneContent(m, d, it) ==
  LET inside == SelectSeq([i \in 1..Len(m.def.html) |-> i],
                          LAMBDA i : m.def.html[i].tpl = d)
  IN AsSeq([i \in 1..Len(inside) |->
        NewElement(m.gen, inside[i], it, "fragment", m.compiled[inside[i]])])

InFragment(r, it) == r.where = "fragment" /\ IsPrefix(it, r.it)

\* A variant of InsertBefore that appends the fragment after the anchor.
InsertAfter(m, d, it, clone) ==
  LET t == Here(m, d, it)
      moved == SelectSeq(m.dom, LAMBDA r : InFragment(r, clone))
      rest == SelectSeq(m.dom, LAMBDA r : ~InFragment(r, clone))
      at == PosOf(rest, d, it)
  IN IF m.dom[t].detached # "no" THEN m
     ELSE [m EXCEPT !.dom =
             SubSeq(rest, 1, at)
             \o [i \in 1..Len(moved) |->
                   [moved[i] EXCEPT !.where = m.dom[t].where]]
             \o SubSeq(rest, at + 1, Len(rest))]

\* element.parentNode?.insertBefore(fragment, element): what is left in the
\* fragment of iteration `clone` moves to just before the template; a
\* template without a parent gets nothing.
InsertBefore(m, d, it, clone) ==
  LET t == Here(m, d, it)
      moved == SelectSeq(m.dom, LAMBDA r : InFragment(r, clone))
      rest == SelectSeq(m.dom, LAMBDA r : ~InFragment(r, clone))
      at == PosOf(rest, d, it)
  IN IF m.dom[t].detached # "no" THEN m
     ELSE [m EXCEPT !.dom =
             SubSeq(rest, 1, at - 1)
             \o [i \in 1..Len(moved) |->
                   [moved[i] EXCEPT !.where = m.dom[t].where]]
             \o SubSeq(rest, at, Len(rest))]

\* The path in the instance of item i of the collection c of an x-for
\* processed against cx, when the collection is reached from the instance
\* by that path (<<>> otherwise): the overlay binds the loop variable to
\* the very item the instance holds.
ItemAlias(m, cx, c, i) ==
  IF c.op # "path" THEN <<>>
  ELSE IF ~cx.live /\ Head(c.p) = cx.v
  THEN IF cx.alias = <<>> THEN <<>>
       ELSE cx.alias \o Tail(c.p) \o <<Digits(i - 1)>>
  ELSE IF /\ HasKey(m.ctx, Head(c.p))
          /\ Lookup(CxPairs(m, cx), Head(c.p)) = Lookup(m.ctx, Head(c.p))
  THEN c.p \o <<Digits(i - 1)>>
  ELSE <<>>

RECURSIVE processAttribute(_, _, _, _, _)
RECURSIVE processAttributes(_, _, _, _, _)
RECURSIVE processElements(_, _, _)
RECURSIVE processIterations(_, _, _, _, _, _, _)

\* The forEach of processForAttribute from iteration i on: clone, process
\* the clone against its overlay through the render callback, insert.
processIterations(m, d, it, attr, cx, iterations, i) ==
  IF i > Len(iterations) \/ m.exc # "none" THEN m
  ELSE LET clone == Append(it, i - 1)
           Against(fragment) ==
             AsSeq([k \in 1..Len(fragment) |->
                      [fragment[k] EXCEPT !.against = iterations[i]]])
           Ids(dom) ==
             LET ids == SelectSeq(dom, LAMBDA r : r.it = clone)
             IN [k \in 1..Len(ids) |-> <<ids[k].d, ids[k].it>>]
           Processed(cloned) ==
             processElements(cloned, Ids(cloned.dom),
                             Overlay(iterations[i], attr[2].v,
                                     ItemAlias(m, cx, attr[2].c, i)))
           Inserted(done) ==
             IF done.exc # "none" THEN done
             ELSE processIterations(InsertBefore(done, d, it, clone),
                                    d, it, attr, cx, iterations, i + 1)
       IN Inserted(Processed(
            [m EXCEPT !.dom = @ \o Against(CloneContent(m, d, clone))]))

\* A variant of processForAttribute that throws for an element that is no
\* template instead of warning.
processForAttributeStrict(m, d, it, attr, cx) ==
  IF m.def.html[d].tag # Template THEN Raise(m, "expression")
  ELSE processIterations(m, d, it, attr, cx,
                         parseListIterations(m, attr[2], cx), 1)

\* AttributeProcessor.processForAttribute
processForAttribute(m, d, it, attr, cx) ==
  IF m.def.html[d].tag # Template THEN m
  ELSE processIterations(m, d, it, attr, cx,
                         parseListIterations(m, attr[2], cx), 1)

\* AttributeProcessor.processAttribute: the @ and : prefixes first, then the
\* table of named directives; any other attribute is left alone.
processAttribute(m, d, it, attr, cx) ==
  LET name == attr[1]
      run == Applied(m, d, it, name)
  IN CASE Head(name) = "@" -> processEventAttribute(run, d, it, attr, cx)
       [] Head(name) = ":" -> processDynamicAttribute(run, d, it, attr, cx)
       [] name = XShow -> processShowAttribute(run, d, it, attr, cx)
       [] name = XIf -> processIfAttribute(run, d, it, attr, cx)
       [] name = XFor -> processForAttribute(run, d, it, attr, cx)
       [] name = XHtml -> processHtmlAttribute(run, d, it, attr, cx)
       [] name = XText -> processTextAttribute(run, d, it, attr, cx)
       [] name = XModel -> processModelAttribute(run, d, it, attr, cx)
       [] name = XRef -> processRefAttribute(run, d, it, attr, cx)
       [] OTHER -> m

\* Array.from(element.attributes).forEach(...): every attribute the element
\* had when the loop started, in source order.
processAttributes(m, d, it, attrs, cx) ==
  IF attrs = <<>> \/ m.exc # "none" THEN m
  ELSE processAttributes(processAttribute(m, d, it, Head(attrs), cx),
                         d, it, Tail(attrs), cx)

\* The elements.forEach of processDynamicAttributes over the static list
\* querySelectorAll("*") returned.  The content of a <template> is not
\* part of that list (or is skipped by the closest("template") test).
processElements(m, ids, cx) ==
  IF ids = <<>> \/ m.exc # "none" THEN m
  ELSE processElements(
         processAttributes(m, Head(ids)[1], Head(ids)[2],
                           m.def.html[Head(ids)[1]].attrs, cx),
         Tail(ids), cx)

\* A variant of processDynamicAttributes over a live list of elements: the
\* clones an x-for inserted are reached by the enclosing loop as well and
\* processed against the instance.
processDynamicAttributesLive(m) ==
  LET All(p) == [k \in 1..Len(p.dom) |-> <<p.dom[k].d, p.dom[k].it>>]
      Again(p) ==
        processElements(p, SelectSeq(All(p), LAMBDA id : id[2] # <<>>), Live)
  IN Step(processElements(Log(m, "directives"), All(m), Live), Again)

\* ComponentRenderer.processDynamicAttributes() of a render pass: the whole
\* boundary against the instance.
processDynamicAttributes(m) ==
  processElements(Log(m, "directives"),
                  [k \in 1..Len(m.dom) |-> <<m.dom[k].d, m.dom[k].it>>], Live)

(***************************************************************************)
(* ComponentRenderer  (src/src/component-renderer.ts)                      *)
(*                                                                         *)
(* A component definition def holds the tag name, the markup of the        *)
(* template (without <style> blocks, which processTemplateCSS rewrites),   *)
(* the behavior block (script: the expression its text stands for, Nop     *)
(* when there is none), the bodies of the functions it declares (methods)  *)
(* and the template's data-attrs list (attrs).  The instance's context is  *)
(* the instance itself: ctx lists the properties the model's expressions   *)
(* can name.                                                               *)
(***************************************************************************)
OnComponentRendered ==
  <<"o", "n", "C", "o", "m", "p", "o", "n", "e", "n", "t",
    "R", "e", "n", "d", "e", "r", "e", "d">>

OnComponentMounted ==
  <<"o", "n", "C", "o", "m", "p", "o", "n", "e", "n", "t",
    "M", "o", "u", "n", "t", "e", "d">>

\* What the elements of the boundary show: the attached elements in
\* document order with text, hidden flag, value and the attributes set.
Markup(dom) ==
  LET shown == SelectSeq(dom, LAMBDA r : r.where = "boundary")
  IN [i \in 1..Len(shown) |->
        [d |-> shown[i].d, it |-> shown[i].it, text |-> shown[i].text,
         hidden |-> shown[i].hidden, value |-> shown[i].value,
         set |-> shown[i].set]]

\* The body of the method the instance holds under `name`; the methods of
\* the class itself are empty.
MethodBody(m, name) ==
  IF GetProp(Obj(m.ctx), name).t = "function"
     /\ GetProp(Obj(m.ctx), name).s \in DOMAIN m.def.methods
  THEN m.def.methods[GetProp(Obj(m.ctx), name).s]
  ELSE Nop

\* Mustache.render(this._htmlContent, this.context): the text of every
\* element of the template, the content of its <template> elements
\* included, compiled against the instance.
compileMarkup(m) ==
  [Log(m, "compile") EXCEPT
     !.compiled = [d \in 1..Len(m.def.html) |->
                     IF m.prepared THEN render(m.def.html[d].text, Obj(m.ctx))
                     ELSE <<>>]]

\* A variant of the boundary update that appends the newly parsed elements
\* to what the boundary holds (innerHTML += processedContent).
replaceBoundaryAppending(m) ==
  LET top == SelectSeq([d \in 1..Len(m.def.html) |-> d],
                       LAMBDA d : m.prepared /\ m.def.html[d].tpl = 0)
  IN [Log(m, "replace") EXCEPT
        !.gen = @ + 1,
        !.dom = SelectSeq(m.dom, LAMBDA r : r.where = "boundary")
                \o AsSeq([i \in 1..Len(top) |->
                      NewElement(m.gen + 1, top[i], <<>>, "boundary",
                                 m.compiled[top[i]])])]

\* A variant of the boundary update that writes the markup into the host
\* itself (this.innerHTML = processedContent): the light content changes.
replaceBoundaryInHost(m) ==
  LET top == SelectSeq([d \in 1..Len(m.def.html) |-> d],
                       LAMBDA d : m.prepared /\ m.def.html[d].tpl = 0)
  IN [Log(m, "replace") EXCEPT
        !.gen = @ + 1,
        !.hostHtml = IF @ = <<>> THEN <<"x">> ELSE <<>>,
        !.dom = AsSeq([i \in 1..Len(top) |->
                   NewElement(m.gen + 1, top[i], <<>>, "boundary",
                              m.compiled[top[i]])])]

\* this.shadowRoot.innerHTML = processedContent: the boundary holds the
\* newly parsed elements and nothing else.
replaceBoundary(m) ==
  LET top == SelectSeq([d \in 1..Len(m.def.html) |-> d],
                       LAMBDA d : m.prepared /\ m.def.html[d].tpl = 0)
  IN [Log(m, "replace") EXCEPT
        !.gen = @ + 1,
        !.dom = AsSeq([i \in 1..Len(top) |->
                   NewElement(m.gen + 1, top[i], <<>>, "boundary",
                              m.compiled[top[i]])])]

\* Whether property key of the instance is a selector map for
\* handleEventProcessing: an object all of whose values are functions.
IsEventObject(m, key) ==
  LET v == GetProp(Obj(m.ctx), key)
  IN /\ IsObjectLike(v)
     /\ \A i \in 1..Len(v.kv) : v.kv[i][2].t = "function"

\* The listeners handleEventProcessing adds to element r: one per event of
\* every selector map whose key selects the element (by tag name).
SelectorListeners(m, r) ==
  LET maps == SelectSeq(m.ctx, LAMBDA p : IsEventObject(m, p[1])
                                         /\ p[1] = m.def.html[r.d].tag)
  IN Concat([i \in 1..Len(maps) |->
               [k \in 1..Len(maps[i][2].kv) |->
                  [ev |-> maps[i][2].kv[k][1], kind |-> "selector",
                   code |-> [op |-> "selector", sel |-> maps[i][1],
                             ev |-> maps[i][2].kv[k][1]],
                   cx |-> Live]]])

\* ComponentRenderer.handleEventProcessing
handleEventProcessing(m) ==
  [Log(m, "bind") EXCEPT
     !.dom = AsSeq([i \in 1..Len(m.dom) |->
                IF m.dom[i].where = "boundary"
                THEN [m.dom[i] EXCEPT
                        !.listeners = @ \o SelectorListeners(m, m.dom[i])]
                ELSE m.dom[i]])]

\* this.onComponentRendered() inside its try/catch: a throwing hook is
\* raised again, wrapped in an error that names the component.
onComponentRendered(m) ==
  LET Called(r) ==
        [Log(m, "hook") EXCEPT !.hooks = @ + 1, !.hookSaw = Markup(m.dom),
                               !.ctx = r.this, !.exc = IF r.ok THEN @ ELSE "hook"]
  IN Called(ExecStmt(MethodBody(m, OnComponentRendered), <<>>, m.ctx,
                     m.def.methods))

\* A variant of render that processes the directives before it replaces
\* the content of the boundary.
componentRenderDirectivesFirst(m) ==
  LET Completed(p) == [p EXCEPT !.passes = @ + 1]
  IN Step(Step(Step(Step(Step(compileMarkup([m EXCEPT !.started = @ + 1]),
                              processDynamicAttributes),
                         replaceBoundary),
                    handleEventProcessing),
               onComponentRendered),
          Completed)

\* A variant of render whose catch block only logs the error: the caller
\* sees render return normally.
componentRenderSwallowing(m) ==
  LET Completed(p) == [p EXCEPT !.passes = @ + 1]
      Swallowed(p) == [p EXCEPT !.exc = "none"]
  IN Swallowed(
       Step(Step(Step(Step(Step(compileMarkup([m EXCEPT !.started = @ + 1]),
                                replaceBoundary),
                           processDynamicAttributes),
                      handleEventProcessing),
                 onComponentRendered),
            Completed))

\* ComponentRenderer.render(): one render pass.  An exception of the pass
\* leaves render (m.exc says which).
componentRender(m) ==
  LET Completed(p) == [p EXCEPT !.passes = @ + 1]
  IN Step(Step(Step(Step(Step(compileMarkup([m EXCEPT !.started = @ + 1]),
                              replaceBoundary),
                         processDynamicAttributes),
                    handleEventProcessing),
               onComponentRendered),
          Completed)

\* AttributeProcessor.updateContext on a list of properties: the levels
\* before the last are entered, a missing or falsy one is created as an
\* empty object; writing a property of a truthy primitive throws (class
\* code is strict).
RECURSIVE updateContext(_, _, _)
updateContext(context, value, pathParts) ==
  IF Len(pathParts) = 1
  THEN [ok |-> TRUE, kv |-> SetPair(context, pathParts[1], value)]
  ELSE LET cur == GetProp(Obj(context), pathParts[1])
           obj == IF Truthy(cur) THEN cur ELSE Obj(<<>>)
           inner == IF obj.t \in {"object", "array", "element", "function"}
                    THEN updateContext(obj.kv, value, Tail(pathParts))
                    ELSE [ok |-> FALSE, kv |-> <<>>]
       IN IF inner.ok
          THEN [ok |-> TRUE,
                kv |-> SetPair(context, pathParts[1],
                               [obj EXCEPT !.kv = inner.kv])]
          ELSE [ok |-> FALSE, kv |-> context]

\* Where a write through an overlay lands in the instance: a path of one
\* name stays in the overlay (<<>>: nowhere); a longer path enters an
\* object the overlay shares with the instance, under the same name or,
\* through the loop variable, as an item of the collection.
SharedPath(m, cx, pathParts) ==
  IF Len(pathParts) < 2 THEN <<>>
  ELSE IF Head(pathParts) = cx.v /\ cx.alias # <<>>
  THEN cx.alias \o Tail(pathParts)
  ELSE IF /\ HasKey(m.ctx, Head(pathParts))
          /\ HasKey(cx.o, Head(pathParts))
          /\ IsObjectLike(Lookup(cx.o, Head(pathParts)))
          /\ Lookup(cx.o, Head(pathParts)) = Lookup(m.ctx, Head(pathParts))
  THEN pathParts
  ELSE <<>>

\* A variant of the context of a handler that holds the element only.
fullContextWithoutEvent(m, l, el) ==
  Assign(CxPairs(m, l.cx), <<<<ElKey, el>>>>)

\* The fullContext of createEventHandler: a copy of the context with $el,
\* $event and event.
fullContext(m, l, el) ==
  Assign(CxPairs(m, l.cx),
         <<<<ElKey, el>>, <<DollarEventKey, m.event>>,
           <<EventKey, m.event>>>>)

\* The handler createEventHandler returns, bound to context cx: the
\* statement runs inside `with` over a copy of the context with `this` the
\* context; if it ends normally and `this` has a render method (the
\* instance has, an overlay has not) the component is rendered.  Whatever
\* is thrown in between is caught and logged.  written keeps the properties
\* of the overlay a handler of a clone ran on, as the statement left them.
eventHandler(m, l, el) ==
  LET Caught(done) ==
        IF done.exc = "none" THEN done
        ELSE IF done.exc = "overlay" THEN [done EXCEPT !.exc = "none"]
        ELSE Log([done EXCEPT !.exc = "none"], "caught")
      Ran(r) ==
        [Log(IF l.cx.live THEN [m EXCEPT !.ctx = r.this] ELSE m, "statement")
           EXCEPT !.sent = @ \o r.out,
                  !.written = IF l.cx.live THEN @ ELSE r.this,
                  !.exc = IF ~r.ok THEN "statement"
                          ELSE IF l.cx.live THEN "none" ELSE "overlay"]
  IN Caught(Step(Ran(ExecStmt(l.code, fullContext(m, l, el),
                              CxPairs(m, l.cx), m.def.methods)),
                 componentRender))

\* A variant of the render callback that drops the request when a render
\* pass has already run in the same turn.
renderCallbackCoalescing(m) ==
  IF \E i \in 1..Len(m.trace) : m.trace[i] = "compile"
  THEN Log(m, "rerender")
  ELSE componentRender(Log(m, "rerender"))

\* The render callback processDynamicAttributes hands to the attribute
\* processor, called without a fragment: this.render().
renderCallback(m) ==
  componentRender(Log(m, "rerender"))

\* A variant of the listener of processEventAttribute that invokes the
\* render callback before the handler.
eventListenerRenderFirst(m, l, el) ==
  LET Handler(p) == eventHandler(p, l, el)
  IN Step(renderCallback(m), Handler)

\* The listener processEventAttribute registers: the handler, then the
\* render callback, which rerenders the component.
eventListener(m, l, el) ==
  Step(eventHandler(m, l, el), renderCallback)

\* The listener processModelAttribute registers: the value of the input is
\* written to the context at the path, then the render callback runs.
modelListener(m, l, value) ==
  LET pathParts == l.code.p
      Shared(target) ==
        IF target = <<>> THEN m.ctx
        ELSE updateContext(m.ctx, Str(value), target).kv
      Written(written) ==
        IF ~written.ok THEN Raise(Log(m, "update"), "update")
        ELSE [Log(m, "update") EXCEPT
                !.ctx = Shared(IF l.cx.live THEN pathParts
                               ELSE SharedPath(m, l.cx, pathParts))]
  IN Step(Written(updateContext(CxPairs(m, l.cx), Str(value), pathParts)),
          renderCallback)

\* A variant of the listener of handleEventProcessing whose catch block
\* only logs what the handler threw.
selectorListenerSwallowing(m, l) ==
  LET Called(r) == [Log(m, "handler") EXCEPT !.ctx = r.this]
      Body(handler) ==
        IF handler.t = "function" /\ handler.s \in DOMAIN m.def.methods
        THEN m.def.methods[handler.s] ELSE Throwing
  IN Called(ExecStmt(Body(GetProp(GetProp(Obj(m.ctx), l.code.sel), l.code.ev)),
                     <<>>, m.ctx, m.def.methods))

\* The listener handleEventProcessing registers: the handler the selector
\* map holds when the event arrives is called on the instance; what it
\* throws is raised again, wrapped in an error that names event, selector
\* and component.
selectorListener(m, l) ==
  LET Called(r) ==
        [Log(m, "handler") EXCEPT !.ctx = r.this,
                                  !.exc = IF r.ok THEN @ ELSE "handler"]
      Body(handler) ==
        IF handler.t = "function" /\ handler.s \in DOMAIN m.def.methods
        THEN m.def.methods[handler.s] ELSE Throwing
  IN Called(ExecStmt(Body(GetProp(GetProp(Obj(m.ctx), l.code.sel), l.code.ev)),
                     <<>>, m.ctx, m.def.methods))

\* One listener of an element is called with the event.
runListener(m, l, el, value) ==
  CASE l.kind = "event" -> eventListener(m, l, el)
    [] l.kind = "model" -> modelListener(m, l, value)
    [] OTHER -> selectorListener(m, l)

\* element.dispatchEvent: the listeners the element had for the event when
\* it arrived run in the order of their registration; an exception that
\* leaves a listener is reported (uncaught) and the next listener runs.
RECURSIVE runListeners(_, _, _, _)
runListeners(m, ls, el, value) ==
  IF ls = <<>> THEN m
  ELSE runListeners(Report(runListener(m, Head(ls), el, value)), Tail(ls),
                    el, value)

\* element.dispatchEvent(event) for an event object that the page or a
\* component created.
dispatchCustomEvent(m, d, it, ev, value, event) ==
  LET r == m.dom[Here(m, d, it)]
  IN runListeners([m EXCEPT !.event = event],
                  SelectSeq(r.listeners, LAMBDA l : l.ev = ev),
                  Ref(m, d, it), value)

\* An event of the user (a click, a change): the model keeps its type only.
dispatchEvent(m, d, it, ev, value) ==
  dispatchCustomEvent(m, d, it, ev, value, Str(ev))

\* The state of a host element before its constructor has run.
NoInstance ==
  [alive |-> FALSE, failed |-> FALSE,
   def |-> [name |-> <<>>, html |-> <<>>, script |-> Nop,
            methods |-> <<>>, attrs |-> <<>>],
   dataset |-> <<>>, hostHtml |-> <<>>, ctx |-> <<>>, prepared |-> FALSE,
   observer |-> FALSE, scriptEvals |-> 0, compiled |-> <<>>, dom |-> <<>>,
   gen |-> 0, started |-> 0, passes |-> 0, hooks |-> 0, hookSaw |-> <<>>,
   connected |-> FALSE, mounts |-> 0, op |-> "none", target |-> <<>>,
   input |-> <<>>, event |-> Undefined, sent |-> <<>>, written |-> <<>>,
   trace |-> <<>>,
   exc |-> "none", uncaught |-> <<>>]

\* The constructor of ComponentRenderer: the context is the instance,
\* seeded with the parsed dataset, the light content under "@" and an
\* empty $refs; handleExternalMutations registers the observer when the
\* template's data-attrs text holds an "@".
constructRenderer(def, dataset, hostHtml) ==
  [NoInstance EXCEPT
     !.alive = TRUE, !.def = def, !.dataset = dataset, !.hostHtml = hostHtml,
     !.ctx = Assign(parseDataset(dataset),
                    <<<<AtKey, Str(hostHtml)>>, <<RefsKey, Obj(<<>>)>>>>),
     !.observer = (\E i \in 1..Len(def.attrs) : def.attrs[i] = "@"),
     !.op = "construct", !.trace = <<"constructed">>]

\* ComponentRenderer.processInlineScript: the behavior block is evaluated
\* once and what it returns is merged into the instance (which is the
\* context); a block that fails evaluates to null and merges nothing.
processInlineScript(m) ==
  [Log(m, "script") EXCEPT
     !.scriptEvals = @ + 1,
     !.ctx = Assign(@, SpreadPairs(evaluate(m.def.script, Obj(m.ctx),
                                            Obj(m.ctx)).v))]

\* ComponentRenderer.prepareContent: the markup of the template without its
\* script, then the inline script if there is one.
prepareContent(m) ==
  LET Script(content) ==
        IF m.def.script # Nop THEN processInlineScript(content) ELSE content
  IN Log(Script([m EXCEPT !.prepared = TRUE]), "prepared")

\* A variant of the constructor of a component class that leaves the first
\* render pass to the first callback.
constructWithoutRender(def, dataset, hostHtml) ==
  prepareContent(constructRenderer(def, dataset, hostHtml))

\* The constructor of the class initComponents defines for a template:
\* super(template), prepareContent(template), render().  An exception of
\* the render pass leaves the constructor: the element is not upgraded.
construct(def, dataset, hostHtml) ==
  LET Ended(m) == [Report(m) EXCEPT !.failed = (m.exc # "none")]
  IN Ended(componentRender(prepareContent(constructRenderer(def, dataset,
                                                             hostHtml))))

Begin(m, op) ==
  [m EXCEPT !.op = op, !.target = <<>>, !.input = <<>>, !.trace = <<>>,
            !.event = Undefined, !.sent = <<>>, !.written = <<>>,
            !.uncaught = <<>>]

\* The same for an event the user causes on element (d, it).
BeginOn(m, op, d, it, value) ==
  [Begin(m, op) EXCEPT !.target = <<d, it>>, !.input = value]

\* ComponentRenderer.connectedCallback: the mount hook, whose exception is
\* raised again wrapped in an error that names the component.
connectedCallback(m) ==
  LET Called(r) ==
        [Log(m, "mounted") EXCEPT !.mounts = @ + 1, !.ctx = r.this,
                                  !.exc = IF r.ok THEN @ ELSE "mount"]
  IN Called(ExecStmt(MethodBody(m, OnComponentMounted), <<>>, m.ctx,
                     m.def.methods))

\* The names initComponents puts into observedAttributes, without the
\* data- prefix: the entries of the template's data-attrs text.
ObservedAttributes(def) ==
  IF def.attrs = <<>> THEN <<>> ELSE SplitOn(def.attrs, ",")

\* A variant of attributeChangedCallback that makes the parsed dataset the
\* whole context (keeping only the references table) before it renders.
attributeChangedCallbackReplacing(m) ==
  componentRender(
    Log([m EXCEPT !.ctx = Assign(<<<<RefsKey, Lookup(@, RefsKey)>>>>,
                                 parseDataset(m.dataset))],
        "attribute"))

\* ComponentRenderer.attributeChangedCallback: the parsed dataset is
\* assigned to the context, then the component is rendered.
attributeChangedCallback(m) ==
  componentRender(Log([m EXCEPT !.ctx = Assign(@, parseDataset(m.dataset))],
                      "attribute"))

\* A variant of the observer's callback that renders without reading the
\* light content of the host again.
mutationCallbackStale(m) ==
  componentRender(Log(m, "mutation"))

\* The callback of the MutationObserver of handleExternalMutations.
mutationCallback(m) ==
  componentRender(Log([m EXCEPT !.ctx = SetPair(@, AtKey, Str(m.hostHtml))],
                      "mutation"))

(***************************************************************************)
(* Inputs of the template renderer                                         *)
(***************************************************************************)
\* Longest text drawn as a context value.
MaxText == 2

\* Longest sequence drawn as a context value.
MaxItems == 2

kKey == <<"k">>

nKey == <<"n">>

Escaped(key) == Braces2 \o key \o Close2

Raw(key) == Braces3 \o key \o Close3

Section(key, block) == OpenSection \o key \o Close2 \o block \o CloseTag(key)

Inverted(key, block) == OpenInverted \o key \o Close2 \o block \o CloseTag(key)

\* The five HTML-sensitive characters and one ordinary character.
TextAlphabet == {"&", "<", ">", "\"", "'", "a"}

Texts == UNION {[1..m -> TextAlphabet] : m \in 0..MaxText}

\* A value that is itself template syntax.
TemplateLikeText == Escaped(nKey)

\* The inner blocks of the section templates.
Blocks ==
  {<<"b">>, Escaped(Dot), Raw(Dot), Escaped(nKey) \o <<" ">>}

\* Dotted paths: into k, into the first element of k, and through a name
\* the context does not hold.
DottedKeys ==
  {<<"k", ".", "n">>, <<"k", ".", "0">>, <<"k", ".", "0", ".", "n">>,
   <<"k", ".", "n", ".", "n">>, <<"x", ".", "n">>}

\* Inner blocks that are themselves a section or an inverted section, on a
\* key that the items and the outer context both hold.
NestedBlocks == {Section(nKey, <<"y">>), Inverted(nKey, <<"x">>)}

Templates ==
  {Escaped(kKey), Raw(kKey), <<"a">> \o Escaped(<<" ", "k", " ">>) \o <<"!">>}
  \cup {Section(kKey, b) : b \in NestedBlocks}
  \cup {Escaped(key) : key \in DottedKeys}
  \cup {Raw(key) : key \in DottedKeys}
  \cup {Section(kKey, b) : b \in Blocks}
  \cup {Inverted(kKey, b) : b \in Blocks}
  \cup {Section(kKey, <<"x">>) \o Inverted(kKey, <<"y">>)}

ItemValues ==
  {Str(<<"a">>), Str(<<"<", "b">>), Str(TemplateLikeText),
   Obj(<<<<nKey, Str(<<"A">>)>>>>), Obj(<<<<nKey, Str(<<"&">>)>>>>),
   Obj(<<<<nKey, False>>>>)}

Sequences == UNION {[1..m -> ItemValues] : m \in 0..MaxItems}

\* What the key k holds.
KValues ==
  {Str(x) : x \in Texts}
  \cup {Str(TemplateLikeText)}
  \cup {Arr(items) : items \in Sequences}
  \cup {Undefined, Null, False, True, Num(<<"0">>), Num(<<"1">>),
        Obj(<<<<nKey, Str(<<"A">>)>>>>)}

Contexts ==
  {Obj(<<<<kKey, v>>, <<nKey, Str(<<"N">>)>>>>) : v \in KValues}
  \cup {Obj(<<<<nKey, Str(<<"N">>)>>>>)}

\* template, context, output, rendered: one call of the template renderer;
\* inst: one component instance; nest: a page with nested components;
\* call: one call of a helper function, its arguments and what it returned;
\* queue: the callbacks the browser still owes the instance; page: a
\* document with component definitions and the calls of initComponents.
VARIABLES template, context, output, rendered, inst, nest, call, queue, page

renderVars == <<template, context, output, rendered>>

vars == <<renderVars, inst, nest, call, queue, page>>

\* No helper function is being called.
NoCall == [fn |-> "none", done |-> FALSE]

\* A page without component definitions on which initComponents was never
\* called.  site: what every URL serves; links, templates: the hrefs of
\* the link[rel=html] elements and the data-name values of the templates of
\* the document, in document order; known: the module's knownElements;
\* added: how many templates the page added by itself; defined: the names
\* customElements.define was called with; runs: the calls of initComponents.
NoPage ==
  [site |-> <<>>, links |-> <<>>, templates |-> <<>>, added |-> 0,
   known |-> <<>>, defined |-> <<>>, runs |-> <<>>]

\* No page with nested components: neither parent nor child exists.  old is
\* the child whose handler ran last, fresh an instance of the child's class
\* as its constructor leaves it, trace the steps of the last operation on
\* the page, each with the instance that took it.
NoNest ==
  [parent |-> NoInstance, child |-> NoInstance, old |-> NoInstance,
   fresh |-> NoInstance, childDef |-> NoInstance.def, trace |-> <<>>]

InitRender ==
  /\ inst = NoInstance
  /\ nest = NoNest
  /\ call = NoCall
  /\ queue = <<>>
  /\ page = NoPage
  /\ template \in Templates
  /\ context \in Contexts
  /\ output = <<>>
  /\ rendered = FALSE

\* One call TemplateRenderer.render(template, context).
Render ==
  /\ ~rendered
  /\ output' = render(template, context)
  /\ rendered' = TRUE
  /\ UNCHANGED <<template, context, inst, nest, call, queue,
               page>>

NextRender == Render

SpecRender == InitRender /\ [][NextRender]_vars

(***************************************************************************)
(* Claims about the template renderer (checked under SpecRender)           *)
(***************************************************************************)
\* The entity of one character, as the documentation of escaped
\* interpolation lists them.
EntityOf(c) ==
  CASE c = "&" -> <<"&", "a", "m", "p", ";">>
    [] c = "<" -> <<"&", "l", "t", ";">>
    [] c = ">" -> <<"&", "g", "t", ";">>
    [] c = "\"" -> <<"&", "q", "u", "o", "t", ";">>
    [] c = "'" -> <<"&", "#", "0", "3", "9", ";">>
    [] OTHER -> <<c>>

EntityEscaped(s) == Concat([i \in 1..Len(s) |-> EntityOf(s[i])])

KHoldsText == HasKey(context.kv, kKey) /\ Lookup(context.kv, kKey).t = "string"

KValue == GetProp(context, kKey)

\* C1: for a context that maps the key to a string s, the escaped
\* interpolation {{key}} renders s with each of & < > " ' replaced by its
\* entity, once per source character (no raw < > " ' is left), and the raw
\* interpolation {{{key}}} renders s unchanged.
C1_InterpolationRoundTrip ==
  (rendered /\ KHoldsText) =>
    /\ template = Escaped(kKey) =>
         /\ output = EntityEscaped(KValue.s)
         /\ \A i \in 1..Len(output) : output[i] \notin {"<", ">", "\"", "'"}
    /\ template = Raw(kKey) => output = KValue.s

C1_Witness ==
  /\ rendered
  /\ template = Escaped(kKey)
  /\ KValue = Str(<<"&", "<">>)
  /\ output = <<"&", "a", "m", "p", ";", "&", "l", "t", ";">>

\* C2 (as claimed): a section over a sequence renders the concatenation, in
\* input order, of its block rendered once per element with {{.}} and the
\* element's keys bound; over an empty sequence or a falsy scalar it renders
\* the empty text.
C2_SectionPerElement ==
  \A b \in Blocks :
    (rendered /\ template = Section(kKey, b)) =>
      /\ IsArray(KValue) =>
           output = Concat([i \in 1..Len(KValue.kv) |->
                              render(b, ItemOverlay(context, KValue.kv[i][2]))])
      /\ (~IsArray(KValue) /\ ~Truthy(KValue)) => output = <<>>

\* C3: an inverted section renders its block iff the key is falsy or an
\* empty sequence, otherwise nothing; a section and an inverted section on
\* the same key never both render their block.
C3_InvertedIffFalsy ==
  LET falsyOrEmpty ==
        ~Truthy(KValue) \/ (IsArray(KValue) /\ Items(KValue) = <<>>)
  IN /\ (rendered /\ template = Inverted(kKey, <<"b">>)) =>
          output = (IF falsyOrEmpty THEN <<"b">> ELSE <<>>)
     /\ (rendered /\ template = Section(kKey, <<"x">>) \o Inverted(kKey, <<"y">>)) =>
          /\ ~(\E i, j \in 1..Len(output) : output[i] = "x" /\ output[j] = "y")
          /\ (\E j \in 1..Len(output) : output[j] = "y") <=> falsyOrEmpty

C3_Witness ==
  /\ rendered
  /\ template = Inverted(kKey, <<"b">>)
  /\ KValue = Arr(<<>>)
  /\ output = <<"b">>

(***************************************************************************)
(* Component definitions                                                   *)
(***************************************************************************)
oKey == <<"o">>

mKey == <<"m">>

uKey == <<"u">>

eKey == <<"e">>

lKey == <<"l">>

vKey == <<"v">>

tKey == <<"t">>

hKey == <<"h">>

rKey == <<"r">>

cKey == <<"c">>

Div == <<"d", "i", "v">>

Button == <<"b", "u", "t", "t", "o", "n">>

Span == <<"s", "p", "a", "n">>

Input == <<"i", "n", "p", "u", "t">>

Paragraph == <<"p">>

Ul == <<"u", "l">>

Li == <<"l", "i">>

\* toggle() { this.o = !this.o }
Toggle == SetThis(oKey, Not(ThisPath(<<oKey>>)))

\* A counter in the manner of x-counter of tests/test-components.html, with
\* a flag for the count: handlers that call a method, assign through a bare
\* name, throw after an assignment, and do not parse.
CounterDef ==
  [name |-> <<"x", "-", "c">>,
   html |-> <<El(Div, 0, 0, <<>>, <<>>),
              El(Button, 1, 0, <<<<AtClick, Call(tKey)>>>>, <<"-">>),
              El(Span, 1, 0, <<>>, Escaped(oKey)),
              El(Button, 1, 0, <<<<AtClick, SetBare(oKey, Lit(True))>>>>, <<"+">>),
              El(Button, 1, 0,
                 <<<<AtClick, Seq2(SetThis(oKey, Lit(True)), Throwing)>>>>, <<>>),
              El(Button, 1, 0, <<<<AtClick, BadSyntax>>>>, <<>>)>>,
   script |-> Lit(Obj(<<<<oKey, False>>, <<tKey, Fn(tKey)>>>>)),
   methods |-> (tKey :> Toggle),
   attrs |-> <<"o">>]

\* Inputs bound to a nested path, to a top-level field and to a path
\* through that field.
FormDef ==
  [name |-> <<"x", "-", "f">>,
   html |-> <<El(Div, 0, 0, <<>>, <<>>),
              El(Input, 1, 0, <<<<XModel, Path(<<uKey, eKey>>)>>>>, <<>>),
              El(Input, 1, 0, <<<<XModel, Path(<<mKey>>)>>>>, <<>>),
              El(Input, 1, 0, <<<<XModel, Path(<<mKey, eKey>>)>>>>, <<>>),
              El(Span, 1, 0, <<>>, Escaped(mKey))>>,
   script |-> Lit(Obj(<<<<uKey, Obj(<<<<eKey, Str(<<"a">>)>>>>)>>,
                        <<mKey, Str(<<>>)>>>>)),
   methods |-> <<>>,
   attrs |-> <<"m">>]

\* An element with x-if among its directives, a child inside it and a
\* sibling after it; two elements that show the flag as text and as markup.
CondDef ==
  [name |-> <<"x", "-", "i">>,
   html |-> <<El(Div, 0, 0, <<>>, <<>>),
              El(Button, 1, 0, <<<<AtClick, Call(tKey)>>>>, <<>>),
              El(Paragraph, 1, 0,
                 <<<<XRef, rKey>>, <<XIf, Path(<<oKey>>)>>,
                   <<AtClick, Call(tKey)>>, <<XModel, Path(<<mKey>>)>>,
                   <<ColonTitle, Path(<<mKey>>)>>, <<XShow, Path(<<oKey>>)>>>>,
                 <<>>),
              El(Span, 3, 0,
                 <<<<XRef, cKey>>, <<XText, Path(<<mKey>>)>>>>, <<>>),
              El(Span, 1, 0, <<<<XShow, Not(Path(<<oKey>>))>>>>, Escaped(mKey)),
              El(Span, 1, 0, <<<<XText, Path(<<oKey>>)>>>>, <<>>),
              El(Span, 1, 0, <<<<XHtml, Path(<<oKey>>)>>>>, <<>>)>>,
   script |-> Lit(Obj(<<<<oKey, True>>, <<mKey, Str(<<"a">>)>>,
                        <<tKey, Fn(tKey)>>>>)),
   methods |-> (tKey :> Toggle),
   attrs |-> <<"m">>]

\* A list: a template with x-for between two fixed items; the collection
\* comes from the host's data-l attribute.
ListDef ==
  [name |-> <<"x", "-", "l">>,
   html |-> <<El(Ul, 0, 0, <<>>, <<>>),
              El(Li, 1, 0, <<>>, <<"^">>),
              El(Template, 1, 0, <<<<XFor, ForOf(vKey, Path(<<lKey>>))>>>>, <<>>),
              El(Li, 0, 3,
                 <<<<XText, Path(<<vKey>>)>>, <<ColonTitle, Path(<<IdxKey>>)>>,
                   <<AtClick, SetThis(oKey, Lit(True))>>>>, <<>>),
              El(Li, 1, 0, <<>>, Escaped(oKey))>>,
   script |-> Nop,
   methods |-> <<>>,
   attrs |-> <<"l", ",", "@">>]

\* Directives whose expressions do not parse or throw, a behavior block
\* that does not parse, and an element after them.
ErrorsDef ==
  [name |-> <<"x", "-", "e">>,
   html |-> <<El(Div, 0, 0, <<>>, <<>>),
              El(Paragraph, 1, 0, <<<<XShow, BadSyntax>>>>, <<>>),
              El(Paragraph, 1, 0, <<<<XText, Throwing>>>>, <<"t">>),
              El(Paragraph, 1, 0,
                 <<<<ColonTitle, Path(<<uKey, eKey>>)>>>>, <<>>),
              El(Paragraph, 1, 0, <<<<XIf, Throwing>>>>, <<>>),
              El(Button, 1, 0, <<<<AtClick, Throwing>>>>, <<>>),
              El(Template, 1, 0, <<<<XFor, BadSyntax>>>>, <<>>),
              El(Li, 0, 7, <<>>, <<>>),
              El(Span, 1, 0, <<<<XText, Path(<<mKey>>)>>>>, <<>>)>>,
   script |-> BadSyntax,
   methods |-> <<>>,
   attrs |-> <<"m">>]

\* Hooks and a selector map: a click on a span toggles the flag, the mount
\* hook sets a field, the render hook throws while the light content is
\* not empty.
HooksDef ==
  [name |-> <<"x", "-", "h">>,
   html |-> <<El(Span, 0, 0, <<>>, Escaped(oKey))>>,
   script |-> Lit(Obj(<<<<oKey, False>>,
                        <<Span, Obj(<<<<Click, Fn(tKey)>>,
                                      <<Change, Fn(hKey)>>>>)>>,
                        <<OnComponentMounted, Fn(mKey)>>,
                        <<OnComponentRendered, Fn(rKey)>>>>)),
   methods |-> (tKey :> Toggle) @@ (hKey :> Throwing)
               @@ (mKey :> SetThis(mKey, Lit(True)))
               @@ (rKey :> ThrowIf(ThisPath(<<AtKey>>))),
   attrs |-> <<"o", ",", "@">>]

Defs == {CounterDef, FormDef, CondDef, ListDef, ErrorsDef, HooksDef}

(***************************************************************************)
(* The life of one component instance                                      *)
(***************************************************************************)
\* Most render passes started on one instance.
MaxPasses == 4

\* Most attachments of one instance.
MaxMounts == 2

\* The data attributes that change.
HostKeys == {lKey, mKey}

\* The texts a data attribute of the host takes: the list l as JSON text
\* (and a text that is no list), m and o as plain text.
RawTexts(key) ==
  IF key = lKey
  THEN {<<"[", "]">>, <<"b">>,
        <<"[", "\"", "a", "\"", ",", "\"", "b", "\"", "]">>}
  ELSE {<<"b">>}

\* The data attributes the host is created with.
Datasets == {<<>>, <<<<lKey, <<"[", "\"", "a", "\"", "]">>>>>>}

\* The light content of the host.
HostHtmls == {<<>>, <<"x">>}

\* The values typed into an input.
ChangeValues == {<<>>, <<"b">>}

\* The page creates the host element: the constructor runs.
Construct ==
  /\ ~inst.alive
  /\ \E def \in Defs, dataset \in Datasets, hostHtml \in HostHtmls :
       inst' = construct(def, dataset, hostHtml)
  /\ UNCHANGED <<renderVars, nest, call, queue, page>>

\* The host is attached to a document.
Connect ==
  /\ inst.alive /\ ~inst.failed /\ ~inst.connected
  /\ inst.mounts < MaxMounts
  /\ inst' = Report(connectedCallback(
                      Begin([inst EXCEPT !.connected = TRUE], "connect")))
  /\ UNCHANGED <<renderVars, nest, call, queue, page>>

\* The host is detached (the class has no disconnectedCallback).
Disconnect ==
  /\ inst.alive /\ inst.connected
  /\ inst' = Begin([inst EXCEPT !.connected = FALSE], "disconnect")
  /\ UNCHANGED <<renderVars, nest, call, queue, page>>

\* An observed data attribute of the host is set: the browser invokes
\* attributeChangedCallback.
AttributeChanged ==
  /\ inst.alive /\ ~inst.failed
  /\ inst.started < MaxPasses
  /\ \E key \in HostKeys :
       /\ \E i \in 1..Len(ObservedAttributes(inst.def)) :
            ObservedAttributes(inst.def)[i] = key
       /\ \E raw \in RawTexts(key) :
            inst' = Report(attributeChangedCallback(
                             Begin([inst EXCEPT
                                      !.dataset = SetPair(@, key, raw)],
                                   "attribute")))
  /\ UNCHANGED <<renderVars, nest, call, queue, page>>

\* The light content of the host changes; the observer, if there is one,
\* is notified.
ContentMutated ==
  /\ inst.alive
  /\ inst.started < MaxPasses
  /\ \E hostHtml \in HostHtmls \ {inst.hostHtml} :
       LET m == Begin([inst EXCEPT !.hostHtml = hostHtml], "mutation")
       IN inst' = IF inst.observer THEN Report(mutationCallback(m)) ELSE m
  /\ UNCHANGED <<renderVars, nest, call, queue, page>>

\* A click on an element of the boundary.
ClickElement ==
  /\ inst.alive
  /\ inst.started + 2 <= MaxPasses
  /\ \E i \in 1..Len(inst.dom) :
       /\ inst.dom[i].where = "boundary"
       /\ \E k \in 1..Len(inst.dom[i].listeners) :
            inst.dom[i].listeners[k].ev = Click
       /\ inst' = dispatchEvent(BeginOn(inst, "click", inst.dom[i].d,
                                        inst.dom[i].it, <<>>),
                                inst.dom[i].d, inst.dom[i].it, Click, <<>>)
  /\ UNCHANGED <<renderVars, nest, call, queue, page>>

\* The value of an input of the boundary is changed by the user.
ChangeInput ==
  /\ inst.alive
  /\ inst.started < MaxPasses
  /\ \E i \in 1..Len(inst.dom), value \in ChangeValues :
       /\ inst.dom[i].where = "boundary"
       /\ \E k \in 1..Len(inst.dom[i].listeners) :
            inst.dom[i].listeners[k].ev = Change
       /\ inst' = dispatchEvent(
                    BeginOn([inst EXCEPT !.dom[i].value = value], "change",
                            inst.dom[i].d, inst.dom[i].it, value),
                    inst.dom[i].d, inst.dom[i].it, Change, value)
  /\ UNCHANGED <<renderVars, nest, call, queue, page>>

Init ==
  /\ inst = NoInstance
  /\ nest = NoNest
  /\ call = NoCall
  /\ queue = <<>>
  /\ page = NoPage
  /\ template = <<>>
  /\ context = Obj(<<>>)
  /\ output = <<>>
  /\ rendered = TRUE

Next ==
  \/ Construct
  \/ Connect
  \/ Disconnect
  \/ AttributeChanged
  \/ ContentMutated
  \/ ClickElement
  \/ ChangeInput

Spec == Init /\ [][Next]_vars

\* ------------------------------------------------------------------------
\* Claims about the life of a component instance (checked under Spec)
\* ------------------------------------------------------------------------

\* How often a step occurs in the trace of the last operation.
Count(trace, label) == Cardinality({i \in 1..Len(trace) : trace[i] = label})

\* The dotted path of the x-model attribute of element d of the template
\* (<<>> when it has none).
ModelPath(d) ==
  LET a == SelectSeq(inst.def.html[d].attrs, LAMBDA at : at[1] = XModel)
  IN IF a = <<>> THEN <<>> ELSE a[1][2].p

\* What an input shows for a value.
Shown(v) == IF IsNullish(v) THEN <<>> ELSE StringOf(v)

\* The last operation ended a render pass and nothing was thrown.
PassJustCompleted ==
  /\ inst.alive /\ inst.uncaught = <<>>
  /\ inst.trace # <<>> /\ inst.trace[Len(inst.trace)] = "hook"

\* C4: an input with x-model=P processed against the component's context
\* shows the value found at P once the pass is over, and a change event on
\* it with value v sets the context at P to v and causes exactly one render
\* pass.
C4_ModelTwoWay ==
  /\ PassJustCompleted =>
       \A i \in 1..Len(inst.dom) :
          (/\ inst.dom[i].where = "boundary" /\ inst.dom[i].it = <<>>
           /\ ModelPath(inst.dom[i].d) # <<>>)
          => inst.dom[i].value
               = Shown(ResolvePath(Obj(inst.ctx), ModelPath(inst.dom[i].d)))
  /\ (/\ inst.alive /\ inst.op = "change"
      /\ inst.target[2] = <<>> /\ ModelPath(inst.target[1]) # <<>>)
     => /\ ResolvePath(Obj(inst.ctx), ModelPath(inst.target[1]))
             = Str(inst.input)
        /\ Count(inst.trace, "compile") = 1
        /\ Count(inst.trace, "hook") = 1

\* The last operation was an event on an element carrying the attribute.
EventOn(op, attribute) ==
  /\ inst.alive /\ inst.op = op
  /\ \E k \in 1..Len(inst.def.html[inst.target[1]].attrs) :
       inst.def.html[inst.target[1]].attrs[k][1] = attribute

\* The position of the first occurrence of a step in the trace of the last
\* operation (0 when it does not occur).
FirstAt(trace, label) ==
  IF Count(trace, label) = 0 THEN 0
  ELSE CHOOSE i \in 1..Len(trace) :
         trace[i] = label /\ \A j \in 1..(i - 1) : trace[j] # label

\* C5: when a listener registered by an @event attribute fires, the statement
\* is executed before any render pass starts, the rerender callback is
\* invoked after it, and when the listener has returned the markup of the
\* boundary is the markup a render pass produces from the context as it then
\* is.
C5_EventThenRerender ==
  EventOn("click", AtClick) =>
    /\ FirstAt(inst.trace, "statement") = 1
    /\ FirstAt(inst.trace, "rerender") > 1
    /\ Markup(inst.dom) = Markup(componentRender(inst).dom)

\* A click on the first button of the counter has run its statement (the
\* flag is toggled), then the rerender callback, and the span shows the new
\* value.
C5_Witness ==
  /\ EventOn("click", AtClick)
  /\ inst.def = CounterDef /\ inst.target = <<2, <<>>>>
  /\ Lookup(inst.ctx, oKey) = True
  /\ FirstAt(inst.trace, "rerender") > FirstAt(inst.trace, "statement")
  /\ \E i \in 1..Len(inst.dom) :
       /\ inst.dom[i].d = 3 /\ inst.dom[i].where = "boundary"
       /\ inst.dom[i].text = <<"t", "r", "u", "e">>

\* The names of the attributes of element d of the template up to and
\* including its x-if attribute.
UpToIf(d) ==
  LET attrs == inst.def.html[d].attrs
      at == CHOOSE k \in 1..Len(attrs) : attrs[k][1] = XIf
  IN [k \in 1..at |-> attrs[k][1]]

\* C6: once x-if has removed an element in a render pass, no directive listed
\* after x-if on that element is applied in that pass: the directives applied
\* to it are exactly those listed up to and including x-if.
C6_RemovedByIfIsFinal ==
  \A i \in 1..Len(inst.dom) :
     (inst.alive /\ inst.dom[i].detached = "x-if")
     => inst.dom[i].applied = UpToIf(inst.dom[i].d)

\* The x-for expression of element d of the template (Nop when it is not a
\* template element carrying x-for).
ForExpression(d) ==
  LET a == SelectSeq(inst.def.html[d].attrs, LAMBDA at : at[1] = XFor)
  IN IF inst.def.html[d].tag = Template /\ a # <<>> /\ a[1][2].op = "for"
     THEN a[1][2] ELSE Nop

\* The collection the x-for expression e names, in the component's context.
Collection(e) == ResolvePath(Obj(inst.ctx), e.c.p)

\* Position t of the boundary holds the anchor of an x-for whose collection
\* is a sequence.
AnchorAt(t) ==
  /\ inst.dom[t].where = "boundary" /\ inst.dom[t].it = <<>>
  /\ ForExpression(inst.dom[t].d) # Nop
  /\ IsArray(Collection(ForExpression(inst.dom[t].d)))

\* The elements of the boundary that are clones of the content of template d.
ClonesOf(d) ==
  {i \in 1..Len(inst.dom) :
     /\ inst.dom[i].where = "boundary"
     /\ inst.def.html[inst.dom[i].d].tpl = d}

\* The elements of the content of template d.
ContentOf(d) == {c \in 1..Len(inst.def.html) : inst.def.html[c].tpl = d}

\* C7: for x-for="v of C" on a template element where C is the sequence
\* a0..a(n-1), the boundary holds exactly n clones of the template content,
\* they stand immediately before the anchor in collection order, and the
\* i-th clone was processed against an overlay in which v is ai and _idx is i.
C7_ForClonesInOrder ==
  PassJustCompleted =>
    \A t \in 1..Len(inst.dom) :
       AnchorAt(t) =>
         LET e == ForExpression(inst.dom[t].d)
             items == Items(Collection(e))
             n == Len(items)
         IN /\ Cardinality(ClonesOf(inst.dom[t].d))
                 = n * Cardinality(ContentOf(inst.dom[t].d))
            /\ t > n
            /\ \A i \in 1..n :
                 LET clone == inst.dom[t - n + i - 1]
                 IN /\ clone.where = "boundary"
                    /\ inst.def.html[clone.d].tpl = inst.dom[t].d
                    /\ clone.it = <<i - 1>>
                    /\ Lookup(clone.against, e.v) = items[i]
                    /\ Lookup(clone.against, IdxKey) = Num(Digits(i - 1))

\* The list component was rendered for the collection ["a", "b"]: two clones
\* stand before the anchor, the first showing "a" with index 0, the second
\* "b" with index 1.
C7_Witness ==
  /\ PassJustCompleted /\ inst.def = ListDef
  /\ \E t \in 3..Len(inst.dom) :
       /\ AnchorAt(t)
       /\ Items(Collection(ForExpression(inst.dom[t].d)))
            = <<Str(<<"a">>), Str(<<"b">>)>>
       /\ inst.dom[t - 2].text = <<"a">> /\ inst.dom[t - 2].it = <<0>>
       /\ inst.dom[t - 1].text = <<"b">> /\ inst.dom[t - 1].it = <<1>>
       /\ Lookup(inst.dom[t - 1].set, <<"t", "i", "t", "l", "e">>) = <<"1">>

\* The attributes whose value the directive processor hands to evaluate.
Evaluated == {XShow, XIf, XHtml, XText, XModel, ColonTitle}

\* C8: evaluate returns null instead of throwing, whatever the expression
\* (here: every expression of the component's template, failing ones
\* included, in the current context); no exception of an expression or of an
\* event handler's statement leaves a listener or a callback; and every
\* directive step of the last operation ran to its end, so that the pass went
\* on to bind the selector maps.
C8_FailuresAreContained ==
  inst.alive =>
    /\ \A d \in 1..Len(inst.def.html) :
         \A k \in 1..Len(inst.def.html[d].attrs) :
            LET attr == inst.def.html[d].attrs[k]
            IN attr[1] \in Evaluated =>
                 /\ ~evaluate(attr[2], Obj(inst.ctx), Null).threw
                 /\ EvalExpr(attr[2], inst.ctx, Null).threw
                      => evaluate(attr[2], Obj(inst.ctx), Null).v = Null
    /\ \A k \in 1..Len(inst.uncaught) :
         inst.uncaught[k] \notin {"expression", "statement"}
    /\ Count(inst.trace, "directives") = Count(inst.trace, "bind")

\* The component with failing expressions: a click on the button whose
\* statement throws was caught, and the pass that followed went through all
\* the failing directives and applied the x-text of the last element.
C8_Witness ==
  /\ PassJustCompleted /\ inst.def = ErrorsDef
  /\ EventOn("click", AtClick) /\ Count(inst.trace, "caught") = 1
  /\ EvalExpr(Throwing, inst.ctx, Null).threw
  /\ \E i \in 1..Len(inst.dom) :
       /\ inst.dom[i].d = 9 /\ inst.dom[i].gen = inst.gen
       /\ inst.dom[i].applied = <<XText>>

\* The steps of one render pass, in the order of ComponentRenderer.render.
PassSteps == <<"compile", "replace", "directives", "bind", "hook">>

\* The names of the attributes of element d of the template.
AttributeNames(d) ==
  [k \in 1..Len(inst.def.html[d].attrs) |-> inst.def.html[d].attrs[k][1]]

ConstructionSteps ==
  <<"constructed">>
  \o (IF inst.def.script # Nop THEN <<"script">> ELSE <<>>)
  \o <<"prepared">> \o PassSteps

C11_MountedOnce ==
  inst.alive =>
    /\ inst.connected => inst.mounts >= 1
    /\ inst.mounts <= 1

\* The keys of a sequence of <<key, value>> pairs.
Keys(kv) == {kv[i][1] : i \in 1..Len(kv)}

\* C12: a step in which an observed attribute changes copies every data
\* attribute of the host, coerced, into the context, leaves every other
\* context field as it was (the references table apart, which the render
\* pass fills again), and runs exactly one render pass.
C12_AttributeChangeCopies ==
  [][inst'.op = "attribute" =>
       /\ \A key \in Keys(inst'.dataset) :
            Lookup(inst'.ctx, key)
              = Lookup(parseDataset(inst'.dataset), key)
       /\ \A key \in Keys(inst.ctx) \ (Keys(inst'.dataset) \cup {RefsKey}) :
            /\ HasKey(inst'.ctx, key)
            /\ Lookup(inst'.ctx, key) = Lookup(inst.ctx, key)
       /\ Keys(inst'.ctx) = Keys(inst.ctx) \cup Keys(inst'.dataset)
       /\ Count(inst'.trace, "compile") = 1
       /\ inst'.started = inst.started + 1
       /\ inst'.passes = inst.passes + 1]_vars

\* The list component after data-l was set to ["a","b"]: the context holds
\* the parsed sequence under l, still holds the light content under "@",
\* and one pass has run.
C12_Witness ==
  /\ PassJustCompleted /\ inst.op = "attribute" /\ inst.def = ListDef
  /\ IsArray(Lookup(inst.ctx, lKey))
  /\ Items(Lookup(inst.ctx, lKey)) = <<Str(<<"a">>), Str(<<"b">>)>>
  /\ Lookup(inst.ctx, AtKey) = Str(inst.hostHtml)
  /\ inst.trace = <<"attribute">> \o PassSteps

\* The observed-attribute list of the definition names "@".
ObservesContent(def) ==
  \E i \in 1..Len(ObservedAttributes(def)) : ObservedAttributes(def)[i] = AtKey

C13_WitnessUnobserved ==
  /\ inst.alive /\ inst.op = "mutation" /\ inst.def = CounterDef
  /\ inst.trace = <<>>
  /\ Lookup(inst.ctx, AtKey) # Str(inst.hostHtml)

\* The context without its references table, which every pass fills with
\* the elements of the boundary it has just built.
Fields(kv) == SelectSeq(kv, LAMBDA p : p[1] # RefsKey)

\* C14: two render passes in succession, the first of which leaves the
\* context as it found it, leave the same markup in the boundary.
C14_RenderIdempotent ==
  (inst.alive /\ Fields(Report(componentRender(inst)).ctx) = Fields(inst.ctx))
    => Markup(componentRender(Report(componentRender(inst))).dom)
         = Markup(componentRender(inst).dom)

\* The list component holding two items, a pass just over: a further pass
\* leaves the context as it is and shows the two clones and their text.
C14_Witness ==
  /\ PassJustCompleted /\ inst.def = ListDef
  /\ HasKey(inst.ctx, lKey) /\ IsArray(Lookup(inst.ctx, lKey))
  /\ Len(Items(Lookup(inst.ctx, lKey))) = 2
  /\ Fields(componentRender(inst).ctx) = Fields(inst.ctx)
  /\ Len(Markup(componentRender(inst).dom)) > 2
  /\ Markup(componentRender(inst).dom) = Markup(inst.dom)

\* ------------------------------------------------------------------------
\* Claims about dotted paths (checked under SpecRender)
\* ------------------------------------------------------------------------

\* The value a list of segments leads to from v: a segment names a field of
\* a mapping or the index of an element of a sequence; from anything else,
\* and through a segment that is not there, nothing is reached.
RECURSIVE Follow(_, _)
Follow(v, parts) ==
  IF parts = <<>> THEN v
  ELSE IF v.t \in {"object", "array"} /\ HasKey(v.kv, Head(parts))
       THEN Follow(Lookup(v.kv, Head(parts)), Tail(parts))
       ELSE Undefined

\* The segments of a dotted path.
Segments(key) == SplitOn(key, ".")

\* What the first j segments of the path lead to in the context.
PrefixValue(key, j) == Follow(context, SubSeq(Segments(key), 1, j))

\* Some proper prefix of the path leads to a value of one of the kinds.
PrefixIs(key, kinds) ==
  \E j \in 1..(Len(Segments(key)) - 1) : PrefixValue(key, j).t \in kinds

\* Every segment of the path exists.
WholePath(key) ==
  \A j \in 1..Len(Segments(key)) :
    /\ PrefixValue(key, j - 1).t \in {"object", "array"}
    /\ HasKey(PrefixValue(key, j - 1).kv, Segments(key)[j])

\* The template is one of the two interpolation forms of the path.
Interpolates(key) == rendered /\ template \in {Escaped(key), Raw(key)}

\* C20 (as claimed): a dotted path of which some prefix is undefined, null
\* or anything but a mapping (a primitive, a sequence) resolves to undefined,
\* and both interpolation forms render it as the empty text; a path whose
\* every segment exists resolves to the nested value.
C20_DottedPathNeverFails ==
  \A key \in DottedKeys :
    Interpolates(key) =>
      /\ PrefixIs(key, {"undefined", "null", "string", "number", "boolean",
                        "array"})
           => /\ resolveValue(context, key) = Undefined
              /\ output = <<>>
      /\ WholePath(key)
           => resolveValue(context, key)
                = PrefixValue(key, Len(Segments(key)))

\* C20 (amended): a dotted path of which some prefix is undefined, null or a
\* primitive resolves to undefined, and both interpolation forms render it
\* as the empty text; a path whose every segment exists, a segment being a
\* field of a mapping or an index of a sequence, resolves to the nested
\* value.
C20_DottedPathThroughObjects ==
  \A key \in DottedKeys :
    Interpolates(key) =>
      /\ PrefixIs(key, {"undefined", "null", "string", "number", "boolean"})
           => /\ resolveValue(context, key) = Undefined
              /\ output = <<>>
      /\ WholePath(key)
           => resolveValue(context, key)
                = PrefixValue(key, Len(Segments(key)))

\* {{k.n}} against a k that is the text "a" renders nothing, and {{k.0.n}}
\* against a k whose first element maps n to "A" resolves to "A".
C20_Witness ==
  /\ rendered
  /\ \/ /\ template = Escaped(<<"k", ".", "n">>)
        /\ GetProp(context, kKey) = Str(<<"a">>)
        /\ output = <<>>
     \/ /\ template = Escaped(<<"k", ".", "0", ".", "n">>)
        /\ WholePath(<<"k", ".", "0", ".", "n">>)
        /\ output = <<"A">>

\* ------------------------------------------------------------------------
\* Claims about single directives (checked under Spec)
\* ------------------------------------------------------------------------

\* The value of attribute `name` of element d of the template.
AttributeValue(d, name) ==
  inst.def.html[d].attrs[CHOOSE k \in 1..Len(inst.def.html[d].attrs) :
                           inst.def.html[d].attrs[k][1] = name][2]

\* The elements of the last pass on which directive `name` was processed.
ProcessedWith(name) ==
  {i \in 1..Len(inst.dom) :
     \E k \in 1..Len(inst.dom[i].applied) : inst.dom[i].applied[k] = name}

\* What evaluate gives for attribute `name` of element i in the context the
\* element was processed against.
ValueFor(i, name) ==
  evaluate(AttributeValue(inst.dom[i].d, name),
           Obj(IF inst.dom[i].it = <<>> THEN inst.ctx
               ELSE inst.dom[i].against),
           ElementRef(inst.dom[i].gen, inst.dom[i].d, inst.dom[i].it)).v

\* Element d of the template or an element around it has attribute `name`.
RECURSIVE Under(_, _)
Under(d, name) ==
  IF d = 0 THEN FALSE
  ELSE \/ \E k \in 1..Len(inst.def.html[d].attrs) :
            inst.def.html[d].attrs[k][1] = name
       \/ Under(inst.def.html[d].parent, name)

\* C16: an element on which x-show=E was processed has its hidden flag set
\* exactly when E is falsy (a failed evaluation is null, which is falsy),
\* and x-show does not take it from the boundary: unless another directive
\* removed it or replaced the content around it, it is still attached.
C16_ShowSetsHidden ==
  \A i \in ProcessedWith(XShow) :
    /\ inst.dom[i].hidden = ~Truthy(ValueFor(i, XShow))
    /\ (~Under(inst.dom[i].d, XIf) /\ ~Under(inst.dom[i].d, XHtml)
        /\ ~Under(inst.dom[i].d, XText))
         => inst.dom[i].where = "boundary" /\ inst.dom[i].detached = "no"

\* The conditional component with o true: the span with x-show="!o" is
\* hidden and attached; and the errors component, whose x-show does not
\* parse, has its paragraph hidden and attached.
C16_Witness ==
  /\ PassJustCompleted
  /\ \/ /\ inst.def = CondDef
        /\ Lookup(inst.ctx, oKey) = True
        /\ \E i \in ProcessedWith(XShow) :
             /\ inst.dom[i].d = 5 /\ inst.dom[i].hidden
             /\ inst.dom[i].where = "boundary"
        /\ \E i \in ProcessedWith(XShow) :
             /\ inst.dom[i].d = 3 /\ ~inst.dom[i].hidden
     \/ /\ inst.def = ErrorsDef /\ inst.op = "attribute"
        /\ \E i \in ProcessedWith(XShow) :
             inst.dom[i].hidden /\ inst.dom[i].where = "boundary"

\* C17: an element on which x-html=E or x-text=E was processed holds the
\* value of E as its content; when E is undefined, null or the empty string,
\* or cannot be evaluated, the content is the empty string.
C17_ContentIsValue ==
  \A name \in {XHtml, XText} :
    \A i \in ProcessedWith(name) :
      inst.dom[i].text = IF IsNullish(ValueFor(i, name)) THEN <<>>
                         ELSE StringOf(ValueFor(i, name))

\* The name of the attribute that :title sets.
Title == Tail(ColonTitle)

\* C18: an element on which :title=E was processed has its title attribute
\* set to the text of the value of E when the value is truthy; when it is
\* falsy or E cannot be evaluated no directive has set or cleared the
\* attribute, which is as the markup gave it; and no attribute but title
\* (and the data-value that x-model sets on the same element) was set.
C18_DynamicAttribute ==
  \A i \in ProcessedWith(ColonTitle) :
    /\ IF Truthy(ValueFor(i, ColonTitle))
       THEN /\ HasKey(inst.dom[i].set, Title)
            /\ Lookup(inst.dom[i].set, Title)
                 = StringOf(ValueFor(i, ColonTitle))
       ELSE ~HasKey(inst.dom[i].set, Title)
    /\ \A k \in 1..Len(inst.dom[i].set) :
         \/ inst.dom[i].set[k][1] = Title
         \/ /\ inst.dom[i].set[k][1] = DataValue
            /\ i \in ProcessedWith(XModel)

\* The list component with two items: the first clone, whose _idx is 0, has
\* no title, the second has the title "1".
C18_Witness ==
  /\ PassJustCompleted /\ inst.def = ListDef
  /\ \E i, j \in ProcessedWith(ColonTitle) :
       /\ inst.dom[i].it = <<0>> /\ inst.dom[i].set = <<>>
       /\ inst.dom[i].where = "boundary"
       /\ inst.dom[j].it = <<1>>
       /\ inst.dom[j].set = <<<<Title, <<"1">>>>>>

\* The keys under which the templates record elements.
RefKeys == {rKey, cKey}

\* The instance after x-ref=key is processed on element i of the boundary.
WithRef(i, key) ==
  processRefAttribute(inst, inst.dom[i].d, inst.dom[i].it, <<XRef, key>>, Live)

\* C19: processing x-ref=K on an element stores the element under K in the
\* references table of the context and changes nothing else: the other
\* entries of the table, the other context fields and the elements are as
\* they were, and no render pass or other step is taken.  After a pass the
\* table holds, under the key of each x-ref, the element of that pass.
C19_RefRecordsElement ==
  inst.alive =>
    /\ \A i \in 1..Len(inst.dom), key \in RefKeys :
         LET after == WithRef(i, key)
             refs == GetProp(Obj(after.ctx), RefsKey)
         IN /\ GetProp(refs, key)
                 = ElementRef(inst.gen, inst.dom[i].d, inst.dom[i].it)
            /\ \A other \in RefKeys \ {key} :
                 GetProp(refs, other)
                   = GetProp(GetProp(Obj(inst.ctx), RefsKey), other)
            /\ Fields(after.ctx) = Fields(inst.ctx)
            /\ [after EXCEPT !.ctx = inst.ctx] = inst
    /\ PassJustCompleted =>
         \A i \in ProcessedWith(XRef) :
           GetProp(GetProp(Obj(inst.ctx), RefsKey),
                   AttributeValue(inst.dom[i].d, XRef))
             = ElementRef(inst.gen, inst.dom[i].d, inst.dom[i].it)

\* The conditional component after a pass: the table holds the paragraph
\* under r and the span inside it under c, both of this pass, and recording
\* the button under r leaves c as it is.
C19_Witness ==
  /\ PassJustCompleted /\ inst.def = CondDef /\ inst.gen > 1
  /\ GetProp(GetProp(Obj(inst.ctx), RefsKey), rKey) = ElementRef(inst.gen, 3, <<>>)
  /\ GetProp(GetProp(Obj(inst.ctx), RefsKey), cKey) = ElementRef(inst.gen, 4, <<>>)
  /\ \E i \in 1..Len(inst.dom) :
       /\ inst.dom[i].d = 2
       /\ GetProp(GetProp(Obj(WithRef(i, rKey).ctx), RefsKey), rKey)
            = ElementRef(inst.gen, 2, <<>>)
       /\ GetProp(GetProp(Obj(WithRef(i, rKey).ctx), RefsKey), cKey)
            = ElementRef(inst.gen, 4, <<>>)

(***************************************************************************)
(* A page with nested components                                           *)
(*                                                                         *)
(* x-parent-component and x-child-component of tests/test-components.html: *)
(* the parent's markup holds the child's host element with an              *)
(* @update-message handler, the child's button dispatches a bubbling       *)
(* update-message event on the child's host.                               *)
(***************************************************************************)
ChildMessage ==
  <<"c", "h", "i", "l", "d", "M", "e", "s", "s", "a", "g", "e">>

\* The type of the event, update-message.
UpdateMessageEvent ==
  <<"u", "p", "d", "a", "t", "e", "-", "m", "e", "s", "s", "a", "g",
    "e">>

\* The method of the parent, updateMessage.
UpdateMessage ==
  <<"u", "p", "d", "a", "t", "e", "M", "e", "s", "s", "a", "g", "e">>

SendMessage ==
  <<"s", "e", "n", "d", "M", "e", "s", "s", "a", "g", "e">>

AtUpdateMessage == <<"@">> \o UpdateMessageEvent

MessageKey == <<"m", "e", "s", "s", "a", "g", "e">>

XChildComponent ==
  <<"x", "-", "c", "h", "i", "l", "d", "-", "c", "o", "m", "p", "o",
    "n", "e", "n", "t">>

\* <template data-name="x-parent-component" data-attrs="childMessage">
ParentDef ==
  [name |-> <<"x", "-", "p", "a", "r", "e", "n", "t", "-", "c", "o", "m", "p",
             "o", "n", "e", "n", "t">>,
   html |-> <<El(Div, 0, 0, <<>>, <<>>),
              El(Span, 1, 0, <<>>, Escaped(ChildMessage)),
              El(XChildComponent, 1, 0,
                 <<<<AtUpdateMessage,
                     CallWith(UpdateMessage, EventKey,
                              Path(<<DollarEventKey>>))>>>>,
                 <<>>)>>,
   script |-> Lit(Obj(<<<<ChildMessage, Str(<<"i">>)>>,
                        <<UpdateMessage, Fn(UpdateMessage)>>>>)),
   methods |-> (UpdateMessage
                  :> SetThis(ChildMessage,
                             Path(<<EventKey, DetailKey, MessageKey>>))),
   attrs |-> ChildMessage]

\* The host element of the child in the parent's markup.
ChildHost == 3

\* <template data-name="x-child-component">, for the message and the type
\* of the event that sendMessage dispatches.
ChildDef(type, message) ==
  [name |-> XChildComponent,
   html |-> <<El(Button, 0, 0, <<<<AtClick, Call(SendMessage)>>>>, <<"U">>)>>,
   script |-> Lit(Obj(<<<<SendMessage, Fn(SendMessage)>>>>)),
   methods |-> (SendMessage
                  :> Dispatch(type, Obj(<<<<MessageKey, Str(message)>>>>),
                              TRUE)),
   attrs |-> <<>>]

\* The messages an update-message event carries.
Messages == {<<>>, <<"a">>, <<"b">>}

\* The types of the events the child dispatches: the one the parent listens
\* for and another one.
ChildEvents == {UpdateMessageEvent, <<"o">>}

ChildDefs == {ChildDef(type, message) : type \in ChildEvents,
                                       message \in Messages}

\* The data attributes of the parent's host.
ParentDatasets == {<<>>, <<<<ChildMessage, <<"b">>>>>>}

\* Most render passes started on the parent, or on one child.
MaxNestPasses == 5

\* The steps of an instance, each with the instance that took it.
Tagged(who, steps) == [i \in 1..Len(steps) |-> <<who, steps[i]>>]

\* The parent's boundary holds the host element of the child.
HoldsChild(p) ==
  /\ p.alive /\ ~p.failed
  /\ Here(p, ChildHost, <<>>) # 0
  /\ p.dom[Here(p, ChildHost, <<>>)].where = "boundary"

\* The child element of the parent's boundary: each render pass of the
\* parent parses its markup again, and the element it creates is upgraded
\* to a new instance of the child's class (the constructor, which takes
\* nothing from the page, leaves every new instance in the same state).
Upgraded(p, before, fresh, child) ==
  IF ~HoldsChild(p) THEN NoInstance
  ELSE IF p.gen = before THEN child
  ELSE fresh

\* The events dispatched on the child's host arrive, one after the other,
\* at the listeners the parent put on that element.
RECURSIVE Deliver(_, _)
Deliver(p, sent) ==
  IF sent = <<>> \/ ~HoldsChild(p) THEN p
  ELSE Deliver(dispatchCustomEvent(p, ChildHost, <<>>, Head(sent).ev, <<>>,
                                   Head(sent).event),
               Tail(sent))

\* The steps of a click on the child's button in the order they are taken:
\* dispatchEvent returns to sendMessage when the listeners of the host have
\* returned, and the child's handler goes on after that.
ClickSteps(p, old) ==
  IF old.sent = <<>> THEN Tagged("child", old.trace)
  ELSE <<<<"child", "dispatch">>>> \o Tagged("parent", p.trace)
       \o <<<<"child", "dispatched">>>> \o Tagged("child", old.trace)

\* The page after an operation on the parent that left it as p.
AfterParent(n, p) ==
  [n EXCEPT !.parent = p,
            !.child = Upgraded(p, n.parent.gen, n.fresh, n.child),
            !.trace = Tagged("parent", p.trace)]

\* The page after a click on the child's button that left the clicked
\* child as old and the parent as p.
AfterClick(n, p, old) ==
  [n EXCEPT !.parent = p, !.old = old,
            !.child = Upgraded(p, n.parent.gen, n.fresh, old),
            !.trace = ClickSteps(p, old)]

\* The page creates the parent's host element; the parent's first render
\* pass creates the child.
CreateParent ==
  /\ ~nest.parent.alive
  /\ \E childDef \in ChildDefs, dataset \in ParentDatasets :
       \E made \in {[who \in {"parent", "child"} |->
                       construct(IF who = "parent" THEN ParentDef
                                 ELSE childDef,
                                 IF who = "parent" THEN dataset ELSE <<>>,
                                 <<>>)]} :
         nest' = AfterParent([NoNest EXCEPT !.childDef = childDef,
                                            !.fresh = made["child"]],
                             made["parent"])
  /\ UNCHANGED <<renderVars, inst, call, queue, page>>

\* The parent's host is attached to a document.
ConnectParent ==
  /\ nest.parent.alive /\ ~nest.parent.failed /\ ~nest.parent.connected
  /\ nest.parent.mounts < MaxMounts
  /\ \E p \in {Report(connectedCallback(
                    Begin([nest.parent EXCEPT !.connected = TRUE],
                          "connect")))} :
       nest' = AfterParent(nest, p)
  /\ UNCHANGED <<renderVars, inst, call, queue, page>>

\* The parent's host is removed from its document.
DisconnectParent ==
  /\ nest.parent.alive /\ nest.parent.connected
  /\ nest' = [nest EXCEPT !.parent = Begin([@ EXCEPT !.connected = FALSE],
                                           "disconnect"),
                          !.trace = <<>>]
  /\ UNCHANGED <<renderVars, inst, call, queue, page>>

\* A click on the button of the child: the child's listener runs, and
\* inside it the listeners of the child's host for the event sendMessage
\* dispatches.
ClickChildButton ==
  /\ HoldsChild(nest.parent) /\ nest.child.alive
  /\ nest.parent.started + 2 <= MaxNestPasses
  /\ nest.child.started + 2 <= MaxNestPasses
  /\ \E old \in {dispatchEvent(BeginOn(nest.child, "click", 1, <<>>, <<>>),
                               1, <<>>, Click, <<>>)} :
       \E p \in {Deliver(BeginOn(nest.parent, "event", ChildHost, <<>>,
                                 <<>>),
                         old.sent)} :
         nest' = AfterClick(nest, p, old)
  /\ UNCHANGED <<renderVars, inst, call, queue, page>>

\* The page dispatches an update-message event on the child's host.
DispatchOnChild ==
  /\ HoldsChild(nest.parent)
  /\ nest.parent.started + 2 <= MaxNestPasses
  /\ \E message \in Messages :
       \E p \in {dispatchCustomEvent(
                   BeginOn(nest.parent, "event", ChildHost, <<>>, <<>>),
                   ChildHost, <<>>, UpdateMessageEvent, <<>>,
                   CustomEvent(UpdateMessageEvent,
                               Obj(<<<<MessageKey, Str(message)>>>>)))} :
         nest' = AfterParent(nest, p)
  /\ UNCHANGED <<renderVars, inst, call, queue, page>>

InitNest ==
  /\ nest = NoNest
  /\ call = NoCall
  /\ queue = <<>>
  /\ page = NoPage
  /\ inst = NoInstance
  /\ template = <<>>
  /\ context = Obj(<<>>)
  /\ output = <<>>
  /\ rendered = TRUE

NextNest ==
  \/ CreateParent
  \/ ConnectParent
  \/ DisconnectParent
  \/ ClickChildButton
  \/ DispatchOnChild

SpecNest == InitNest /\ [][NextNest]_vars

\* ------------------------------------------------------------------------
\* Claims about nested components (checked under SpecNest)
\* ------------------------------------------------------------------------

\* The message the child's sendMessage sends with its event.
MessageOf(childDef) == childDef.methods[SendMessage].detail.kv[1][2].s

\* The text of the parent's <span>.
SpanText(p) == p.dom[Here(p, 2, <<>>)].text

\* The positions of a step in the steps of the last operation.
At(step) == {i \in 1..Len(nest.trace) : nest.trace[i] = step}

\* The child whose button was clicked dispatched the event the parent
\* listens for.
ChildSentUpdate ==
  /\ nest.old.alive /\ nest.old.op = "click"
  /\ nest.trace # <<>> /\ nest.trace[1] = <<"child", "dispatch">>
  /\ nest.childDef.methods[SendMessage].ev = UpdateMessageEvent

xKey == <<"x">>

\* The keys parseContextValue is asked for: a field, a field the contexts
\* do not hold, a path into a field, text that throws when it is evaluated
\* and text that is no expression.
ContextKeys ==
  {Path(<<kKey>>), Path(<<xKey>>), Path(<<kKey, nKey>>), Throwing, BadSyntax}

DefaultValues == {Undefined, Str(<<"d">>), Num(<<"0">>)}

ParseContextValueCalls ==
  [fn : {"parseContextValue"}, done : {FALSE}, out : {Undefined},
   key : ContextKeys, context : Contexts, defaultValue : DefaultValues]

\* ContextEvaluator.parseContextValue(key, context, defaultValue)
ParseContextValue ==
  /\ call.fn = "parseContextValue"
  /\ ~call.done
  /\ call' = [call EXCEPT
                !.done = TRUE,
                !.out = parseContextValue(call.key, call.context,
                                          call.defaultValue)]
  /\ UNCHANGED <<renderVars, inst, nest, queue, page>>

\* Raw texts of host attributes: JSON of a mapping, of a sequence and of a
\* string, texts that start like JSON and do not parse, and other texts.
DatasetTexts ==
  {<<"{", "\"", "n", "\"", ":", "\"", "b", "\"", "}">>,
   <<"[", "\"", "a", "\"", "]">>,
   <<"[", "1", "]">>,
   <<"\"", "a", "\"">>,
   <<"{", "a">>, <<"[">>, <<"\"", "a">>,
   <<"a">>, <<"1">>, <<>>}

ParseDatasetCalls ==
  [fn : {"parseDataset"}, done : {FALSE}, out : {<<>>},
   dataset : {<<<<kKey, x>>>> : x \in DatasetTexts}
             \cup {<<<<kKey, x>>, <<nKey, y>>>> :
                     x \in DatasetTexts, y \in DatasetTexts}]

\* parseDataset(dataset)
ParseDataset ==
  /\ call.fn = "parseDataset"
  /\ ~call.done
  /\ call' = [call EXCEPT !.done = TRUE,
                          !.out = parseDataset(call.dataset)]
  /\ UNCHANGED <<renderVars, inst, nest, queue, page>>

\* The paths updateContext is given: a field, paths into it and a path
\* through a field the contexts do not hold.
UpdatePaths ==
  {<<kKey>>, <<kKey, nKey>>, <<kKey, nKey, nKey>>, <<xKey, nKey>>}

UpdateValues == {Str(<<"v">>), Str(<<>>)}

UpdateContextCalls ==
  [fn : {"updateContext"}, done : {FALSE}, out : {<<>>}, threw : {FALSE},
   context : Contexts, value : UpdateValues, pathParts : UpdatePaths]

\* AttributeProcessor.updateContext(context, value, attributeName); the
\* context is changed in place, out is what it holds afterwards.
UpdateContext ==
  /\ call.fn = "updateContext"
  /\ ~call.done
  /\ \E r \in {updateContext(call.context.kv, call.value, call.pathParts)} :
       call' = [call EXCEPT !.done = TRUE, !.out = r.kv, !.threw = ~r.ok]
  /\ UNCHANGED <<renderVars, inst, nest, queue, page>>

InitCalls ==
  /\ inst = NoInstance
  /\ nest = NoNest
  /\ template = <<>>
  /\ context = Undefined
  /\ output = <<>>
  /\ rendered = FALSE
  /\ queue = <<>>
  /\ page = NoPage
  /\ \/ call \in ParseContextValueCalls
     \/ call \in ParseDatasetCalls
     \/ call \in UpdateContextCalls

NextCalls ==
  \/ ParseContextValue
  \/ ParseDataset
  \/ UpdateContext

SpecCalls == InitCalls /\ [][NextCalls]_vars

(***************************************************************************)
(* Claims about the helper functions (checked under SpecCalls)             *)
(***************************************************************************)
Returns(fn) == call.fn = fn /\ call.done

\* The key names a field the context holds.
KeyPresent ==
  call.key.op = "path" /\ HasKey(call.context.kv, Head(call.key.p))

\* C21: parseContextValue(key, context, d) returns the value of key in the
\* context whenever that value is neither null nor undefined (0, '' and
\* false are returned as they are), and returns d when the context does not
\* hold the key or evaluating it fails.
C21_ParseContextValue ==
  Returns("parseContextValue") =>
    /\ (/\ ~evaluateUncaught(call.key, call.context, Null).threw
        /\ ~IsNullish(evaluateUncaught(call.key, call.context, Null).v))
         => call.out = evaluateUncaught(call.key, call.context, Null).v
    /\ (~KeyPresent \/ evaluateUncaught(call.key, call.context, Null).threw)
         => call.out = call.defaultValue

\* A call that returned the falsy value of the key although a different
\* default was given.
C21_Witness ==
  /\ Returns("parseContextValue")
  /\ KeyPresent
  /\ call.out \in {Num(<<"0">>), Str(<<>>), False}
  /\ call.out # call.defaultValue
  /\ call.out = Lookup(call.context.kv, kKey)

\* The text starts like JSON of a mapping, a sequence or a string.
LooksLikeJson(raw) == raw # <<>> /\ Head(raw) \in {"{", "[", "\""}

\* The parsed value with the original text attached under `json`; a parsed
\* string, a primitive, holds no field.
WithJson(v, raw) ==
  IF v.t = "object" THEN [v EXCEPT !.kv = SetPair(@, JsonKey, Str(raw))]
  ELSE IF v.t = "array"
  THEN [t |-> "array", s |-> <<>>, kv |-> v.kv, json |-> Str(raw)]
  ELSE v

\* The coerced form of a raw text.
Coerced(raw) ==
  IF LooksLikeJson(raw) /\ JSONParse(raw).ok
  THEN WithJson(JSONParse(raw).v, raw)
  ELSE Str(raw)

\* C22: parseDataset maps every key of the dataset to the coerced form of
\* its raw text: text that starts with {, [ or " and parses as JSON becomes
\* the parsed value (with the text under `json`), text that looks like JSON
\* and does not parse, and every other text, stays as it is.
C22_DatasetCoerced ==
  Returns("parseDataset") =>
    /\ Len(call.out) = Len(call.dataset)
    /\ \A i \in 1..Len(call.dataset) :
         /\ call.out[i][1] = call.dataset[i][1]
         /\ call.out[i][2] = Coerced(call.dataset[i][2])

\* The same, for every text that is not the JSON of a string.
C22_ExceptStrings ==
  Returns("parseDataset") =>
    /\ Len(call.out) = Len(call.dataset)
    /\ \A i \in 1..Len(call.dataset) :
         /\ call.out[i][1] = call.dataset[i][1]
         /\ \/ call.out[i][2] = Coerced(call.dataset[i][2])
            \/ /\ Coerced(call.dataset[i][2]).t = "string"
               /\ call.out[i][2] = Str(call.dataset[i][2])

(***************************************************************************)
(* Claims about event handlers (checked under Spec)                        *)
(***************************************************************************)
\* The last operation was a click on an element of the top-level markup
\* that carries @click.
TopLevelClick == EventOn("click", AtClick) /\ inst.target[2] = <<>>

\* C23: each firing of an @event listener bound in the top-level markup
\* results in exactly one render pass of the component (onComponentRendered
\* is invoked once per firing), whether or not the statement throws.
C23_OnePassPerFiring ==
  TopLevelClick =>
    /\ Count(inst.trace, "compile") = 1
    /\ Count(inst.trace, "hook") = 1

\* The statement of the @click attribute of the element that was clicked.
ClickedStatement == AttributeValue(inst.target[1], AtClick)

\* The texts the boundary shows for elements whose own text is {{key}}.
ShownFor(key) ==
  {inst.dom[i].text : i \in {j \in 1..Len(inst.dom) :
                               /\ inst.dom[j].where = "boundary"
                               /\ inst.def.html[inst.dom[j].d].text
                                    = Escaped(key)}}

\* C24: a statement of an @event attribute that assigns to a context field
\* through its bare name (f = v) changes that field of the component's own
\* context, and the re-render that follows the handler shows the new value.
C24_BareAssignmentWrites ==
  (/\ TopLevelClick
   /\ ClickedStatement.op = "setBare"
   /\ ClickedStatement.e.op = "lit")
  => /\ HasKey(inst.ctx, ClickedStatement.f)
     /\ Lookup(inst.ctx, ClickedStatement.f) = ClickedStatement.e.v
     /\ ShownFor(ClickedStatement.f) = {StringOf(ClickedStatement.e.v)}

(***************************************************************************)
(* Claims about x-for overlays (checked under Spec)                        *)
(***************************************************************************)
\* The elements of the boundary that an x-for expansion produced.
Clones ==
  {i \in 1..Len(inst.dom) :
     inst.dom[i].where = "boundary" /\ inst.dom[i].it # <<>>}

\* The loop variable of the x-for that produced element d of the template.
LoopVariable(d) == ForExpression(inst.def.html[d].tpl).v

\* The last operation was a click on a clone whose statement is this.f = v.
CloneAssigned ==
  /\ EventOn("click", AtClick) /\ inst.target[2] # <<>>
  /\ ClickedStatement.op = "setThis" /\ ClickedStatement.e.op = "lit"

\* C25: expanding an x-for adds, removes and changes no top-level field of
\* the outer context (the loop variable and _idx exist in the overlays
\* only), and every iteration has an overlay of its own: a top-level field
\* written in the overlay of one iteration is visible neither in the
\* overlay of another iteration nor in the outer context.
C25_OverlaysAreCopies ==
  /\ inst.alive =>
       \A d \in 1..Len(inst.def.html) :
          ForExpression(d) # Nop =>
            /\ ~HasKey(inst.ctx, ForExpression(d).v)
            /\ ~HasKey(inst.ctx, IdxKey)
  /\ PassJustCompleted =>
       \A i \in Clones :
          /\ Keys(inst.dom[i].against)
               = Keys(inst.ctx) \cup {LoopVariable(inst.dom[i].d), IdxKey}
          /\ \A key \in Keys(Fields(inst.ctx)) :
               Lookup(inst.dom[i].against, key) = Lookup(inst.ctx, key)
          /\ \A j \in Clones :
               inst.dom[j].it # inst.dom[i].it =>
                 Lookup(inst.dom[j].against, IdxKey)
                   # Lookup(inst.dom[i].against, IdxKey)
  /\ CloneAssigned =>
       /\ HasKey(inst.written, ClickedStatement.f)
       /\ Lookup(inst.written, ClickedStatement.f) = ClickedStatement.e.v
       /\ ~HasKey(inst.ctx, ClickedStatement.f)
       /\ \A i \in Clones : ~HasKey(inst.dom[i].against, ClickedStatement.f)

\* The second item of a list of two was clicked: its overlay holds the flag
\* the statement set and its own item and index, the context and the
\* overlays of the pass that followed do not hold the flag.
C25_Witness ==
  /\ CloneAssigned /\ PassJustCompleted
  /\ inst.def = ListDef /\ inst.target[2] = <<1>>
  /\ Lookup(inst.written, oKey) = True
  /\ Lookup(inst.written, IdxKey) = Num(<<"1">>)
  /\ Cardinality(Clones) = 2
  /\ ~HasKey(inst.ctx, oKey)

(***************************************************************************)
(* Components with nested and editable lists                               *)
(***************************************************************************)
gKey == <<"g">>

wKey == <<"w">>

\* Groups of items: an x-for over the groups whose item holds an x-for over
\* the group, and a fixed item after them.
\*   <ul><template x-for="w of g"><li :title="_idx">
\*         <template x-for="v of w">
\*           <span x-text="v" :title="_idx" @click="this.o = true"></span>
\*         </template></li></template>
\*       <li>{{o}}</li></ul>
NestedDef ==
  [name |-> <<"x", "-", "n">>,
   html |-> <<El(Ul, 0, 0, <<>>, <<>>),
              El(Template, 1, 0, <<<<XFor, ForOf(wKey, Path(<<gKey>>))>>>>, <<>>),
              El(Li, 0, 2, <<<<ColonTitle, Path(<<IdxKey>>)>>>>, <<>>),
              El(Template, 3, 2, <<<<XFor, ForOf(vKey, Path(<<wKey>>))>>>>, <<>>),
              El(Span, 0, 4,
                 <<<<XText, Path(<<vKey>>)>>, <<ColonTitle, Path(<<IdxKey>>)>>,
                   <<AtClick, SetThis(oKey, Lit(True))>>>>, <<>>),
              El(Li, 1, 0, <<>>, Escaped(oKey))>>,
   script |-> Lit(Obj(<<<<gKey, Arr(<<Arr(<<Str(<<"a">>), Str(<<"b">>)>>),
                                      Arr(<<Str(<<"c">>)>>)>>)>>>>)),
   methods |-> <<>>,
   attrs |-> <<"g">>]

\* A list whose items are edited in place: every item has an input bound to
\* a field of the item and an input bound to a field of the component.
\*   <div><template x-for="v of g">
\*          <input x-model="v.e"><input x-model="m"></template>
\*        <span>{{m}}</span></div>
EditDef ==
  [name |-> <<"x", "-", "t">>,
   html |-> <<El(Div, 0, 0, <<>>, <<>>),
              El(Template, 1, 0, <<<<XFor, ForOf(vKey, Path(<<gKey>>))>>>>, <<>>),
              El(Input, 0, 2, <<<<XModel, Path(<<vKey, eKey>>)>>>>, <<>>),
              El(Input, 0, 2, <<<<XModel, Path(<<mKey>>)>>>>, <<>>),
              El(Span, 1, 0, <<>>, Escaped(mKey))>>,
   script |-> Lit(Obj(<<<<gKey, Arr(<<Obj(<<<<eKey, Str(<<"a">>)>>>>),
                                      Obj(<<<<eKey, Str(<<"c">>)>>>>)>>)>>,
                        <<mKey, Str(<<"a">>)>>>>)),
   methods |-> <<>>,
   attrs |-> <<"g">>]

\* Iterations that cannot be expanded, and elements after them:
\*   <ul><template x-for="(">            <li>a</li></template>
\*       <template x-for="v of u.e">     <li>b</li></template>
\*       <template x-for="v of m">       <li>c</li></template>
\*       <li x-for="v of g" x-text="m"></li>
\*       <span x-text="m" @click="this.o = true"></span></ul>
\*   <script>({ g: ["a"], m: "a" })</script>
LoopErrorsDef ==
  [name |-> <<"x", "-", "r">>,
   html |-> <<El(Ul, 0, 0, <<>>, <<>>),
              El(Template, 1, 0, <<<<XFor, BadSyntax>>>>, <<>>),
              El(Li, 0, 2, <<>>, <<"a">>),
              El(Template, 1, 0,
                 <<<<XFor, ForOf(vKey, Path(<<uKey, eKey>>))>>>>, <<>>),
              El(Li, 0, 4, <<>>, <<"b">>),
              El(Template, 1, 0, <<<<XFor, ForOf(vKey, Path(<<mKey>>))>>>>, <<>>),
              El(Li, 0, 6, <<>>, <<"c">>),
              El(Li, 1, 0, <<<<XFor, ForOf(vKey, Path(<<gKey>>))>>,
                             <<XText, Path(<<mKey>>)>>>>, <<>>),
              El(Span, 1, 0,
                 <<<<XText, Path(<<mKey>>)>>,
                   <<AtClick, SetThis(oKey, Lit(True))>>>>, <<>>)>>,
   script |-> Lit(Obj(<<<<gKey, Arr(<<Str(<<"a">>)>>)>>,
                        <<mKey, Str(<<"a">>)>>>>)),
   methods |-> <<>>,
   attrs |-> <<"g">>]

ListDefs == {NestedDef, EditDef, LoopErrorsDef}

\* The page creates a host element of one of the list components.
ConstructList ==
  /\ ~inst.alive
  /\ \E def \in ListDefs, hostHtml \in HostHtmls :
       inst' = construct(def, <<>>, hostHtml)
  /\ UNCHANGED <<renderVars, nest, call, queue, page>>

NextLists ==
  \/ ConstructList
  \/ ClickElement
  \/ ChangeInput

SpecLists == Init /\ [][NextLists]_vars

(***************************************************************************)
(* Claims about lists (checked under SpecLists)                            *)
(***************************************************************************)
\* The item of the iteration `it` that produced a clone of element d: the
\* collection of the innermost x-for around d, looked up in the context
\* for an x-for of the top level and in the item of the enclosing
\* iteration for a nested one.
RECURSIVE ItemOf(_, _)
ItemOf(d, it) ==
  LET t == inst.def.html[d].tpl
      e == ForExpression(t)
      scope ==
        IF Len(it) = 1 THEN Obj(inst.ctx)
        ELSE Obj(<<<<ForExpression(inst.def.html[t].tpl).v,
                     ItemOf(t, SubSeq(it, 1, Len(it) - 1))>>>>)
  IN Items(ResolvePath(scope, e.c.p))[it[Len(it)] + 1]

\* The attributes of element d that register a listener.
Listening(d) ==
  {k \in 1..Len(inst.def.html[d].attrs) :
     \/ Head(inst.def.html[d].attrs[k][1]) = "@"
     \/ inst.def.html[d].attrs[k][1] = XModel}

\* C26: in one render pass every element an x-for expansion materialized,
\* at any depth, has each of its directives applied exactly once, against
\* the overlay of its iteration: the content of a template that is not
\* expanded is not processed against the outer context, and the enclosing
\* pass does not process the inserted clones again.
C26_ClonesProcessedOnce ==
  PassJustCompleted =>
    \A i \in 1..Len(inst.dom) :
       /\ inst.dom[i].it = <<>> => inst.def.html[inst.dom[i].d].tpl = 0
       /\ inst.dom[i].it # <<>> =>
            /\ inst.dom[i].applied = AttributeNames(inst.dom[i].d)
            /\ Len(inst.dom[i].listeners)
                 = Cardinality(Listening(inst.dom[i].d))
            /\ Len(inst.dom[i].it) \in {1, 2}
            /\ Lookup(inst.dom[i].against, LoopVariable(inst.dom[i].d))
                 = ItemOf(inst.dom[i].d, inst.dom[i].it)
            /\ Lookup(inst.dom[i].against, IdxKey)
                 = Num(Digits(inst.dom[i].it[Len(inst.dom[i].it)]))
            /\ \A k \in 1..Len(inst.def.html[inst.dom[i].d].attrs) :
                 inst.def.html[inst.dom[i].d].attrs[k][1] = XText
                   => inst.dom[i].text
                        = Shown(evaluate(
                                  inst.def.html[inst.dom[i].d].attrs[k][2],
                                  Obj(inst.dom[i].against), Null).v)

\* The nested list was rendered: the second item of the first group is in
\* the boundary, shows its item, carries its index as title and has one
\* click listener.
C26_Witness ==
  /\ PassJustCompleted /\ inst.def = NestedDef
  /\ \E i \in 1..Len(inst.dom) :
       /\ inst.dom[i].where = "boundary"
       /\ inst.dom[i].d = 5 /\ inst.dom[i].it = <<0, 1>>
       /\ inst.dom[i].text = <<"b">>
       /\ inst.dom[i].set = <<<<Title, <<"1">>>>>>
       /\ Len(inst.dom[i].listeners) = 1
       /\ inst.dom[i].applied = <<XText, ColonTitle, AtClick>>

\* The last operation was a change event on an input with x-model that an
\* x-for expansion produced.
CloneChanged ==
  /\ inst.alive /\ inst.op = "change"
  /\ inst.target[2] # <<>> /\ ModelPath(inst.target[1]) # <<>>

\* The values the inputs of the boundary show that stand for the element
\* the last event went to (same element of the template, same iteration).
ShownAtTarget ==
  {inst.dom[i].value : i \in {j \in 1..Len(inst.dom) :
                                /\ inst.dom[j].where = "boundary"
                                /\ inst.dom[j].d = inst.target[1]
                                /\ inst.dom[j].it = inst.target[2]}}

\* C27: for an input with x-model inside an x-for expansion, a change event
\* with value v updates the component so that after the re-render it
\* triggers the regenerated input bound to the same path shows v, for a
\* path through the loop variable and for a top-level path alike.
C27_ModelInsideFor ==
  CloneChanged => ShownAtTarget = {inst.input}

\* The same for paths through the loop variable only.
C27_ThroughLoopVariable ==
  (CloneChanged /\ Head(ModelPath(inst.target[1])) = vKey)
    => ShownAtTarget = {inst.input}

(***************************************************************************)
(* Claims about the references table (checked under Spec)                  *)
(***************************************************************************)
\* The entries of the context's references table.
Refs ==
  IF HasKey(inst.ctx, RefsKey) THEN Lookup(inst.ctx, RefsKey).kv ELSE <<>>

\* The references to the elements attached inside the render boundary.
Attached ==
  {ElementRef(inst.dom[i].gen, inst.dom[i].d, inst.dom[i].it) :
     i \in {j \in 1..Len(inst.dom) : inst.dom[j].where = "boundary"}}

\* C28: after every completed render pass every entry of $refs refers to an
\* element that is attached inside the render boundary: none points to an
\* element x-if removed in this pass or to an element of an earlier pass.
C28_RefsAreAttached ==
  PassJustCompleted => \A k \in 1..Len(Refs) : Refs[k][2] \in Attached

\* The values on the path before its last segment, from the context on.
PrefixValues(c, parts) ==
  {ResolvePath(c, SubSeq(parts, 1, j)) : j \in 1..(Len(parts) - 1)}

\* C29: for every context, dotted path p and value v, whatever is stored
\* along p: after updateContext(context, v, p) the lookup of p in the
\* context yields v, every field that is not on the path is unchanged, and
\* the call does not raise.
C29_UpdateThenLookup ==
  Returns("updateContext") =>
    /\ ~call.threw
    /\ ResolvePath(Obj(call.out), call.pathParts) = call.value
    /\ \A key \in Keys(call.context.kv) \ {Head(call.pathParts)} :
         /\ HasKey(call.out, key)
         /\ Lookup(call.out, key) = Lookup(call.context.kv, key)
    /\ Keys(call.out) = Keys(call.context.kv) \cup {Head(call.pathParts)}

\* The same where no level before the last holds a truthy primitive.
C29_ExceptPrimitives ==
  (/\ Returns("updateContext")
   /\ \A x \in PrefixValues(call.context, call.pathParts) :
        x.t \in {"string", "number", "boolean"} => ~Truthy(x))
  => /\ ~call.threw
     /\ ResolvePath(Obj(call.out), call.pathParts) = call.value
     /\ \A key \in Keys(call.context.kv) \ {Head(call.pathParts)} :
          /\ HasKey(call.out, key)
          /\ Lookup(call.out, key) = Lookup(call.context.kv, key)

(***************************************************************************)
(* Claims about nested sections (checked under SpecRender)                 *)
(***************************************************************************)
\* C30: for a section {{#k}}B{{/k}} over a sequence the output is the
\* concatenation, in order, of B rendered against the overlay of each item,
\* the whole of B, nested sections and nested inverted sections included,
\* being evaluated against that overlay: an inverted section {{^n}}..{{/n}}
\* inside B is decided by the n of the current item, not by the n of the
\* outer context.
C30_BlockAgainstItem ==
  \A b \in NestedBlocks :
    (rendered /\ template = Section(kKey, b) /\ IsArray(KValue)) =>
      output = Concat([i \in 1..Len(KValue.kv) |->
                         render(b, ItemOverlay(context, KValue.kv[i][2]))])

\* The same for a nested section alone.
C30_NestedSection ==
  (rendered /\ template = Section(kKey, Section(nKey, <<"y">>))
   /\ IsArray(KValue)) =>
    output = Concat([i \in 1..Len(KValue.kv) |->
                       render(Section(nKey, <<"y">>),
                              ItemOverlay(context, KValue.kv[i][2]))])

(***************************************************************************)
(* Claims about failures (checked under Spec)                              *)
(***************************************************************************)
\* The behavior block of the component does not parse or throws while it
\* is evaluated.
ScriptFails ==
  /\ inst.def.script # Nop
  /\ EvalExpr(inst.def.script, inst.ctx, Obj(inst.ctx)).threw

\* C31: if the behavior block of a component fails to parse or throws while
\* it is evaluated, an error is raised to the embedding environment during
\* content preparation: the instance is not rendered without its behavior.
C31_ScriptFailureRaised ==
  (inst.alive /\ inst.op = "construct" /\ ScriptFails) =>
    /\ inst.uncaught # <<>>
    /\ Count(inst.trace, "compile") = 0
    /\ inst.passes = 0

(***************************************************************************)
(* A component whose hooks fail, on a page with other components           *)
(***************************************************************************)
\* The component of the hooks with a mount hook that throws once o is set
\* (a click on the span sets it); its render hook throws when the host has
\* light content.
FailingDef ==
  [HooksDef EXCEPT
     !.name = <<"x", "-", "f">>,
     !.methods = (tKey :> Toggle) @@ (hKey :> Throwing)
                 @@ (mKey :> ThrowIf(ThisPath(<<oKey>>)))
                 @@ (rKey :> ThrowIf(ThisPath(<<AtKey>>)))]

\* Markup whose section delimiters are unbalanced: an opening section tag
\* and an opening inverted tag without a closing tag, a closing tag alone,
\* and an opening tag closed under another name.
UnbalancedTexts ==
  {OpenSection \o kKey \o Close2 \o <<"x">>,
   OpenInverted \o kKey \o Close2 \o <<"x">>,
   <<"x">> \o CloseTag(kKey),
   OpenSection \o kKey \o Close2 \o <<"x">> \o CloseTag(nKey)}

\* A component whose markup is <p>text</p>, with k set by its script.
MarkupDef(text) ==
  [name |-> <<"x", "-", "u">>,
   html |-> <<El(Paragraph, 0, 0, <<>>, text)>>,
   script |-> Lit(Obj(<<<<kKey, True>>>>)),
   methods |-> <<>>,
   attrs |-> <<>>]

FailingDefs == {FailingDef} \cup {MarkupDef(text) : text \in UnbalancedTexts}

\* The page creates the host element of one of these components.
ConstructFailing ==
  /\ ~inst.alive
  /\ \E def \in FailingDefs, dataset \in Datasets, hostHtml \in HostHtmls :
       inst' = construct(def, dataset, hostHtml)
  /\ UNCHANGED <<renderVars, nest, call, queue, page>>

NextFailures ==
  \/ ConstructFailing
  \/ Connect
  \/ Disconnect
  \/ ContentMutated
  \/ ClickElement
  \/ CreateParent
  \/ ConnectParent

SpecFailures == Init /\ [][NextFailures]_vars

\* ------------------------------------------------------------------------
\* Claims about failing render passes (checked under SpecFailures)
\* ------------------------------------------------------------------------
\* Hook name of instance m throws when it is called on m's context.
HookThrows(m, name) ==
  ~ExecStmt(MethodBody(m, name), <<>>, m.ctx, m.def.methods).ok

\* The operation that led to instance m ran a render pass to its hook, and
\* the hook threw.
RenderHookFailed(m) ==
  /\ m.alive /\ m.trace # <<>> /\ m.trace[Len(m.trace)] = "hook"
  /\ HookThrows(m, OnComponentRendered)

\* The operation that led to instance m called the mount hook, and the hook
\* threw.
MountHookFailed(m) ==
  /\ m.alive /\ m.op = "connect" /\ HookThrows(m, OnComponentMounted)

C32_MountWitness ==
  /\ MountHookFailed(inst) /\ inst.uncaught = <<"mount">>
  /\ nest.parent.alive

(***************************************************************************)
(* Claims about render requests (checked under Spec)                       *)
(***************************************************************************)
\* The positions of the steps of the last operation at which render() is
\* called: by the constructor after prepareContent, by
\* attributeChangedCallback, by the observer's callback, by the render
\* callback of a listener, and by the handler of an @event attribute bound
\* to the instance when its statement has not thrown.
RenderCalls ==
  {i \in 1..Len(inst.trace) :
     \/ inst.trace[i] \in {"prepared", "attribute", "mutation", "rerender"}
     \/ /\ inst.trace[i] = "statement"
        /\ inst.target[2] = <<>>
        /\ ~(i < Len(inst.trace) /\ inst.trace[i + 1] = "caught")}

\* C33: every call of render() runs one complete render pass before
\* anything else happens: the steps of a pass follow each call at once, no
\* pass runs without a call, and an operation with k calls invokes
\* onComponentRendered k times.
C33_NoBatching ==
  inst.alive =>
    /\ \A i \in RenderCalls :
         /\ i + Len(PassSteps) <= Len(inst.trace)
         /\ SubSeq(inst.trace, i + 1, i + Len(PassSteps)) = PassSteps
    /\ Count(inst.trace, "compile") = Cardinality(RenderCalls)
    /\ Count(inst.trace, "hook") = Cardinality(RenderCalls)
    /\ inst.hooks = inst.started

\* A click whose handler called render() and whose listener then called the
\* render callback: two calls, two passes, nothing raised.
C33_Witness ==
  /\ TopLevelClick /\ inst.uncaught = <<>>
  /\ Cardinality(RenderCalls) = 2
  /\ Count(inst.trace, "hook") = 2

(***************************************************************************)
(* Claims about substituted text (checked under SpecRender)                *)
(***************************************************************************)
\* The key k holds a sequence of strings.
KHoldsTexts ==
  IsArray(KValue) /\ \A i \in 1..Len(KValue.kv) : KValue.kv[i][2].t = "string"

\* C34: the text a context value is substituted with is not interpreted
\* again: {{k}} and {{{k}}} at top level render the string k holds escaped
\* and unchanged, and {{.}} and {{{.}}} inside a section over a sequence of
\* strings render each string escaped and unchanged, also when the string
\* holds template syntax.
C34_SubstitutedOnce ==
  rendered =>
    /\ (KHoldsText /\ template = Escaped(kKey)) => output = escapeHTML(KValue)
    /\ (KHoldsText /\ template = Raw(kKey)) => output = StringOf(KValue)
    /\ (KHoldsTexts /\ template = Section(kKey, Escaped(Dot))) =>
         output = Concat([i \in 1..Len(KValue.kv) |->
                            escapeHTML(KValue.kv[i][2])])
    /\ (KHoldsTexts /\ template = Section(kKey, Raw(Dot))) =>
         output = Concat([i \in 1..Len(KValue.kv) |->
                            StringOf(KValue.kv[i][2])])

\* The part of C34 about interpolations at top level.
C34_TopLevel ==
  (rendered /\ KHoldsText) =>
    /\ template = Escaped(kKey) => output = escapeHTML(KValue)
    /\ template = Raw(kKey) => output = StringOf(KValue)

(***************************************************************************)
(* Claims about iterations that cannot be expanded (checked under          *)
(* SpecLists)                                                              *)
(***************************************************************************)
\* The x-for attributes of element d of the template.
ForOn(d) == SelectSeq(inst.def.html[d].attrs, LAMBDA at : at[1] = XFor)

\* The x-text attributes of element d of the template.
TextOn(d) == SelectSeq(inst.def.html[d].attrs, LAMBDA at : at[1] = XText)

\* The x-for of element d of the top-level markup gives no iterations: the
\* element is no template, the expression is no `v of c`, or c throws or is
\* no sequence in the component's context.
Unusable(d) ==
  /\ inst.def.html[d].tpl = 0
  /\ ForOn(d) # <<>>
  /\ \/ inst.def.html[d].tag # Template
     \/ ForOn(d)[1][2].op # "for"
     \/ EvalExpr(ForOn(d)[1][2].c, inst.ctx, Obj(inst.ctx)).threw
     \/ ~IsArray(EvalExpr(ForOn(d)[1][2].c, inst.ctx, Obj(inst.ctx)).v)

\* The component has an x-for of each kind that cannot be expanded.
AllUnusable ==
  /\ inst.alive
  /\ \E d \in 1..Len(inst.def.html) :
       Unusable(d) /\ inst.def.html[d].tag # Template
  /\ \E d \in 1..Len(inst.def.html) :
       Unusable(d) /\ ForOn(d)[1][2].op # "for"
  /\ \E d \in 1..Len(inst.def.html) :
       /\ Unusable(d) /\ ForOn(d)[1][2].op = "for"
       /\ EvalExpr(ForOn(d)[1][2].c, inst.ctx, Obj(inst.ctx)).threw
  /\ \E d \in 1..Len(inst.def.html) :
       /\ Unusable(d) /\ ForOn(d)[1][2].op = "for"
       /\ inst.def.html[d].tag = Template
       /\ ~EvalExpr(ForOn(d)[1][2].c, inst.ctx, Obj(inst.ctx)).threw

\* C35: an x-for that cannot be expanded produces no clones and raises
\* nothing: every render pass of the operation runs to its hook, nothing is
\* reported, the boundary holds no element of the content of such a
\* template, and every element of the boundary has all its directives
\* applied and shows what its x-text evaluates to.
C35_UnusableForIsSkipped ==
  (inst.alive /\ Count(inst.trace, "compile") > 0
   /\ \E d \in 1..Len(inst.def.html) : Unusable(d)) =>
    /\ inst.uncaught = <<>>
    /\ Count(inst.trace, "hook") = Count(inst.trace, "compile")
    /\ \A i \in 1..Len(inst.dom) :
         /\ ~(inst.def.html[inst.dom[i].d].tpl # 0
              /\ Unusable(inst.def.html[inst.dom[i].d].tpl))
         /\ inst.dom[i].where = "boundary" =>
              /\ inst.dom[i].applied = AttributeNames(inst.dom[i].d)
              /\ TextOn(inst.dom[i].d) # <<>> =>
                   inst.dom[i].text
                     = Shown(evaluate(TextOn(inst.dom[i].d)[1][2],
                                      Obj(inst.ctx), Null).v)

\* The component with the four kinds was rendered, and the span after them
\* shows the text and has its listener.
C35_Witness ==
  /\ AllUnusable /\ PassJustCompleted
  /\ \E i \in 1..Len(inst.dom) :
       /\ inst.dom[i].where = "boundary" /\ inst.dom[i].d = 9
       /\ inst.dom[i].text = <<"a">>
       /\ Len(inst.dom[i].listeners) = 1

\* The markup of the component has unbalanced section delimiters.
Unbalanced ==
  inst.alive /\ \E text \in UnbalancedTexts : inst.def = MarkupDef(text)

\* C36: a render pass over markup with unbalanced section delimiters
\* fails: an error is raised to the caller, the pass is not completed and
\* no markup is written to the boundary.
C36_UnbalancedFails ==
  (Unbalanced /\ Count(inst.trace, "compile") > 0) =>
    /\ inst.uncaught # <<>>
    /\ inst.passes = 0
    /\ Count(inst.trace, "replace") = 0

(***************************************************************************)
(* The callbacks the browser owes an instance                              *)
(***************************************************************************)
\* The components of this specification: one that observes its light
\* content and the attribute l, one that observes its light content and has
\* hooks, one that observes the attribute m.
QuietDefs == {ListDef, HooksDef, ErrorsDef}

\* Whether instance m observes data attribute key.
Observes(m, key) ==
  \E i \in 1..Len(ObservedAttributes(m.def)) :
    ObservedAttributes(m.def)[i] = key

\* The callbacks the browser queues when code that ran on the instance
\* changed the host from what it was in `before` to what it is in `after`:
\* a record for the MutationObserver of handleExternalMutations when the
\* light content differs, an attributeChangedCallback for every observed
\* data attribute that differs.
Owed(before, after) ==
  (IF after.observer /\ after.hostHtml # before.hostHtml
   THEN <<"mutation">> ELSE <<>>)
  \o [i \in 1..Cardinality({key \in HostKeys :
                              /\ Observes(after, key)
                              /\ ~after.failed
                              /\ Fields(after.dataset) # Fields(before.dataset)
                              /\ GetProp(Obj(after.dataset), key)
                                   # GetProp(Obj(before.dataset), key)})
        |-> "attribute"]

\* The page creates the host element.
ConstructQuiet ==
  /\ ~inst.alive
  /\ \E def \in QuietDefs, dataset \in Datasets, hostHtml \in HostHtmls :
       \E m \in {construct(def, dataset, hostHtml)} :
         /\ inst' = m
         /\ queue' = Owed([hostHtml |-> hostHtml, dataset |-> dataset], m)
  /\ UNCHANGED <<renderVars, nest, call, page>>

\* The page changes the light content of the host: the observer, if there
\* is one, is owed a notification.
MutateContent ==
  /\ inst.alive
  /\ inst.started + Len(queue) < MaxPasses
  /\ \E hostHtml \in HostHtmls \ {inst.hostHtml} :
       /\ inst' = [inst EXCEPT !.hostHtml = hostHtml]
       /\ queue' = queue \o (IF inst.observer THEN <<"mutation">> ELSE <<>>)
  /\ UNCHANGED <<renderVars, nest, call, page>>

\* The page sets a data attribute of the host: attributeChangedCallback is
\* owed when the attribute is observed.
SetAttribute ==
  /\ inst.alive /\ ~inst.failed
  /\ inst.started + Len(queue) < MaxPasses
  /\ \E key \in HostKeys :
       \E raw \in RawTexts(key) :
         /\ inst' = [inst EXCEPT !.dataset = SetPair(@, key, raw)]
         /\ queue' = queue \o (IF Observes(inst, key) THEN <<"attribute">>
                               ELSE <<>>)
  /\ UNCHANGED <<renderVars, nest, call, page>>

\* The browser invokes the callback it owes longest; what the callback
\* changed on the host is owed in turn.
Notify ==
  /\ inst.alive /\ queue # <<>>
  /\ inst.started < MaxPasses
  /\ \E m \in {IF Head(queue) = "mutation"
               THEN Report(mutationCallback(Begin(inst, "mutation")))
               ELSE Report(attributeChangedCallback(
                             Begin(inst, "attribute")))} :
       /\ inst' = m
       /\ queue' = Tail(queue) \o Owed(inst, m)
  /\ UNCHANGED <<renderVars, nest, call, page>>

NextQuiet ==
  \/ ConstructQuiet
  \/ MutateContent
  \/ SetAttribute
  \/ Notify

SpecQuiet == Init /\ [][NextQuiet]_vars

\* ------------------------------------------------------------------------
\* Claims about quiescence (checked under SpecQuiet)
\* ------------------------------------------------------------------------
\* C37: a render pass changes neither the light content nor the data
\* attributes of the host (of the context it writes the references table
\* only), so a callback that renders leaves nothing owed beyond what was
\* owed before it.  Every callback runs exactly one pass
\* and shortens what is owed by one, construction leaves nothing owed, and
\* what is owed can always be delivered (the passes of an instance are the
\* passes its triggers account for): after as many callbacks as there were
\* triggers the instance is at rest.
C37_PassesLeaveHostAlone ==
  /\ [][(inst.alive /\ inst'.started # inst.started) =>
          /\ inst'.started = inst.started + 1
          /\ inst'.hostHtml = inst.hostHtml
          /\ inst'.dataset = inst.dataset
          /\ inst'.op = "mutation" =>
               Fields(inst'.ctx)
                 = Fields(SetPair(inst.ctx, AtKey, Str(inst.hostHtml)))
          /\ queue' = Tail(queue)]_vars
  /\ [][(~inst.alive /\ inst'.alive) =>
          /\ inst'.started = 1
          /\ queue' = <<>>]_vars
  /\ [](queue # <<>> =>
          /\ inst.alive
          /\ inst.started + Len(queue) <= MaxPasses)

\* The observer's callback rendered the component after two changes of the
\* light content, and nothing is owed.
C37_Witness ==
  /\ inst.alive /\ inst.op = "mutation" /\ inst.started = 3
  /\ inst.trace # <<>> /\ inst.trace[Len(inst.trace)] = "hook"
  /\ queue = <<>>

(***************************************************************************)
(* Claims about handlers of a selector map (checked under Spec)            *)
(***************************************************************************)
\* The last operation was an event on an element for which the selector
\* map of the component's context holds a handler.
SelectorEvent ==
  /\ inst.alive /\ inst.op \in {"click", "change"}
  /\ Count(inst.trace, "handler") > 0

\* The handler the selector map holds for the element and the event of the
\* last operation.
BoundHandler ==
  GetProp(GetProp(Obj(inst.ctx), inst.def.html[inst.target[1]].tag),
          IF inst.op = "click" THEN Click ELSE Change)

\* That handler throws when it is called on the component's context.
BoundHandlerThrows ==
  /\ BoundHandler.t = "function"
  /\ BoundHandler.s \in DOMAIN inst.def.methods
  /\ ~ExecStmt(inst.def.methods[BoundHandler.s], <<>>, inst.ctx,
               inst.def.methods).ok

\* C38: what a handler of a selector map throws leaves the listener as the
\* wrapped handler error and reaches the dispatcher (it is not swallowed),
\* and the run of such a handler, throwing or not, starts no render pass.
C38_SelectorHandlerRaises ==
  SelectorEvent =>
    /\ Count(inst.trace, "compile") = 0
    /\ Count(inst.trace, "rerender") = 0
    /\ BoundHandlerThrows => inst.uncaught = <<"handler">>
    /\ ~BoundHandlerThrows => inst.uncaught = <<>>

\* A change event on the span of the component with hooks: the handler
\* threw, the error was raised, nothing was rendered.
C38_Witness ==
  /\ SelectorEvent /\ inst.op = "change" /\ BoundHandlerThrows
  /\ inst.uncaught = <<"handler">>
  /\ inst.trace = <<"handler">>

(***************************************************************************)
(* initComponents: the import loop and the definition of the components    *)
(***************************************************************************)
\* The URLs of the component definition files and the component names.
Urls == {"a", "b"}

ComponentNames == {"x-a", "x-b"}

\* Most calls of initComponents, most rounds of one import loop the model
\* follows, most templates the page adds by itself.
MaxCalls == 2

MaxRounds == 6

MaxAdded == 1

\* What a file holds: the hrefs of its link[rel=html] elements and the
\* data-name values of its templates, in document order.  A file that is
\* missing is answered with a status other than 200.
File(links, templates) ==
  [found |-> TRUE, links |-> links, templates |-> templates]

Missing == [found |-> FALSE, links |-> <<>>, templates |-> <<>>]

\* What the URLs serve: files that link to each other in a cycle (one of
\* them to itself as well), files that define the same name, a file that
\* links twice to the other, and a missing file.
Sites ==
  {("a" :> File(<<"b">>, <<"x-a">>)) @@ ("b" :> File(<<"a">>, <<"x-b">>)),
   ("a" :> File(<<"a", "b">>, <<"x-a">>)) @@ ("b" :> File(<<"a">>, <<"x-a">>)),
   ("a" :> File(<<"b", "b">>, <<"x-a", "x-a">>)) @@ ("b" :> Missing),
   ("a" :> File(<<>>, <<"x-b">>)) @@ ("b" :> File(<<>>, <<"x-b", "x-a">>))}

\* The link elements and the templates the document holds when it is
\* loaded.
FirstLinks == {<<>>, <<"a">>, <<"a", "a">>, <<"b", "a">>}

FirstTemplates == {<<>>, <<"x-a">>, <<"x-b", "x-b">>}

\* A call of initComponents that has not fetched anything: urls is its
\* local list of fetched hrefs, results what the fetches of the current
\* round will give (the href, or "" for a link that was skipped), rounds the
\* number of rounds it has started.
NewRun == [pc |-> "start", urls |-> <<>>, results |-> <<>>, rounds |-> 0]

InSeq(s, x) == \E i \in 1..Len(s) : s[i] = x

\* A variant of the callback over the links that fetches a link whatever
\* the list of fetched hrefs holds.
RECURSIVE FetchLinksAgain(_, _)
FetchLinksAgain(run, links) ==
  IF links = <<>> THEN run
  ELSE FetchLinksAgain([run EXCEPT !.urls = Append(@, Head(links)),
                                   !.results = Append(@, Head(links))],
                       Tail(links))

\* The callback Promise.all maps over the links of one round, up to its
\* await: a link whose href the call has fetched gives "", any other is
\* recorded in urls and fetched.
RECURSIVE FetchLinks(_, _)
FetchLinks(run, links) ==
  IF links = <<>> THEN run
  ELSE IF InSeq(run.urls, Head(links))
  THEN FetchLinks([run EXCEPT !.results = Append(@, "")], Tail(links))
  ELSE FetchLinks([run EXCEPT !.urls = Append(@, Head(links)),
                              !.results = Append(@, Head(links))],
                  Tail(links))

\* One round of the do-while loop up to its await: every link[rel=html] of
\* the document is removed and fetched or skipped.
StartRound(p, i) ==
  [p EXCEPT !.links = <<>>,
            !.runs[i] = [FetchLinks([@ EXCEPT !.results = <<>>], p.links)
                           EXCEPT !.pc = "await", !.rounds = @ + 1]]

\* div.innerHTML = components.join(""); document.head.appendChild(div): the
\* links and templates of the files that were found are in the document,
\* after what it held.
RECURSIVE AppendComponents(_, _)
AppendComponents(p, results) ==
  IF results = <<>> THEN p
  ELSE AppendComponents(
         IF Head(results) = "" THEN p
         ELSE [p EXCEPT !.links = @ \o p.site[Head(results)].links,
                        !.templates = @ \o p.site[Head(results)].templates],
         Tail(results))

\* A variant of the loop over the templates that defines a component for
\* every template, known or not.
RECURSIVE DefineTemplatesAgain(_, _)
DefineTemplatesAgain(p, templates) ==
  IF templates = <<>> THEN p
  ELSE DefineTemplatesAgain(
         [p EXCEPT !.known = Append(@, Head(templates)),
                   !.defined = Append(@, Head(templates))],
         Tail(templates))

\* The forEach over template[data-name]: a name knownElements holds is
\* skipped, any other is recorded and defined.
RECURSIVE DefineTemplates(_, _)
DefineTemplates(p, templates) ==
  IF templates = <<>> THEN p
  ELSE DefineTemplates(
         IF InSeq(p.known, Head(templates)) THEN p
         ELSE [p EXCEPT !.known = Append(@, Head(templates)),
                        !.defined = Append(@, Head(templates))],
         Tail(templates))

\* The end of the loop and what follows it: the components are defined and
\* the call is over.
Finish(p, i) ==
  [DefineTemplates(p, p.templates) EXCEPT !.runs[i].pc = "done"]

\* initComponents is called: it runs to the await of its first round.
InitComponents ==
  /\ page.site # <<>>
  /\ Len(page.runs) < MaxCalls
  /\ page' = StartRound([page EXCEPT !.runs = Append(@, NewRun)],
                        Len(page.runs) + 1)
  /\ UNCHANGED <<renderVars, inst, nest, call, queue>>

\* The fetches of a round are answered: what they gave is added to the
\* document, and the call goes into its next round, or, when the round had
\* no link, leaves the loop and defines the components.
FetchesDone ==
  /\ \E i \in 1..Len(page.runs) :
       /\ page.runs[i].pc = "await"
       /\ page.runs[i].rounds < MaxRounds
       /\ page' = IF page.runs[i].results # <<>>
                  THEN StartRound(AppendComponents(page, page.runs[i].results),
                                  i)
                  ELSE Finish(page, i)
  /\ UNCHANGED <<renderVars, inst, nest, call, queue>>

\* The page adds a template by itself.
AddTemplate ==
  /\ page.site # <<>>
  /\ page.added < MaxAdded
  /\ \E name \in ComponentNames :
       page' = [page EXCEPT !.templates = Append(@, name), !.added = @ + 1]
  /\ UNCHANGED <<renderVars, inst, nest, call, queue>>

InitImport ==
  /\ inst = NoInstance
  /\ nest = NoNest
  /\ call = NoCall
  /\ queue = <<>>
  /\ template = <<>>
  /\ context = Obj(<<>>)
  /\ output = <<>>
  /\ rendered = TRUE
  /\ \E site \in Sites, links \in FirstLinks, templates \in FirstTemplates :
       page = [NoPage EXCEPT !.site = site, !.links = links,
                             !.templates = templates]

NextImport ==
  \/ InitComponents
  \/ FetchesDone
  \/ AddTemplate

\* Every fetch is answered.
SpecImport == InitImport /\ [][NextImport]_vars /\ WF_vars(FetchesDone)

\* ------------------------------------------------------------------------
\* Claims about initComponents (checked under SpecImport)
\* ------------------------------------------------------------------------
\* How often x occurs in s.
Occurrences(s, x) == Cardinality({i \in 1..Len(s) : s[i] = x})

\* C39: whatever the calls of initComponents and whatever the templates of
\* the document, customElements.define is called at most once for a name: a
\* name knownElements holds is never defined again.
C39_DefinedOnce ==
  /\ \A name \in ComponentNames : Occurrences(page.defined, name) <= 1
  /\ page.defined = page.known

\* Two calls are over, the document holds three templates with the same
\* name, and the name was defined once.
C39_Witness ==
  /\ Len(page.runs) = 2
  /\ \A i \in 1..Len(page.runs) : page.runs[i].pc = "done"
  /\ Occurrences(page.templates, "x-a") >= 3
  /\ Occurrences(page.defined, "x-a") = 1

\* Call i of initComponents is over.
Over(i) == page.runs[i].pc = "done"

\* The files reference each other in a cycle.
Cyclic ==
  /\ page.site # <<>>
  /\ InSeq(page.site["a"].links, "b")
  /\ InSeq(page.site["b"].links, "a")

\* C40: the import loop of a call fetches no URL twice and ends, also when
\* the files reference each other in a cycle: it takes at most one round
\* per URL, one round in which every link is skipped and one round without
\* links; every call that waits for its fetches ends; and when a call is
\* over the document holds no link[rel=html] element.
C40_ImportLoopEnds ==
  /\ [](\A i \in 1..Len(page.runs) :
          /\ \A url \in Urls : Occurrences(page.runs[i].urls, url) <= 1
          /\ page.runs[i].rounds <= Cardinality(Urls) + 2
          /\ Over(i) => page.links = <<>>)
  /\ \A i \in 1..MaxCalls :
       (i <= Len(page.runs)) ~> (i <= Len(page.runs) /\ Over(i))

\* A call over files that reference each other in a cycle is over: it
\* fetched both files, once each, in four rounds.
C40_Witness ==
  /\ Cyclic
  /\ \E i \in 1..Len(page.runs) :
       /\ Over(i)
       /\ Len(page.runs[i].urls) = 2
       /\ page.runs[i].rounds = 4
  /\ page.links = <<>>

====
